---- MODULE Spec2Model ----
(***************************************************************************)
(* A model of the NeuroRoute routing fabric: the response cache            *)
(* (src/cache.py), and the router that composes cache, classifier and      *)
(* backend adapters (src/router.py).                                       *)
(*                                                                         *)
(* Python dictionaries are modelled as TLA+ functions over the set of the  *)
(* keys that are present; a request's metadata, whose key order is visible *)
(* to json.dumps, is an ordered dictionary: a sequence of <<key, value>>   *)
(* pairs with distinct keys.  Python's None is the record NoneVal.         *)
(***************************************************************************)
EXTENDS Integers, Sequences, FiniteSets, TLC

VARIABLES
    kin,            \* the inputs of a function applied once: in SpecKey the two
                    \* (prompt, metadata) inputs of _generate_key
    kout,           \* what the function computed from kin, or NoneVal
    classification_cache, \* PromptClassifier.classification_cache: the memo
    cls,            \* the last classify_prompt call: arguments, result, and the
                    \* result of the same call without the memo
    cache,          \* the Cache object: enabled, clients, connection_errors, last_connection_attempt
    store,          \* the external key-value store: entries by key, index sets by backend
    storeUp,        \* whether the store answers (ping and commands succeed)
    now,            \* time.time(), in seconds
    cop,            \* the last operation on the cache with its arguments and result
    fallback_config,\* ModelRouter.fallback_config
    adapters,       \* the keys of ModelRouter.adapters
    model_health,   \* ModelRouter.model_health: status by backend
    probe,          \* the last health probe: backend and how its call ended
    model_metrics,  \* ModelRouter.model_metrics: counters by backend
    pc,             \* where the route_prompt call in progress is suspended
    req,            \* its arguments: prompt, metadata, request_id, use_cache; and the
                    \* last cache operation and the connection state when it started
    loc,            \* its local variables
    result,         \* what it returned (an envelope) or raised
    trace,          \* the cache, classifier and adapter calls it has made, in order
    m0,             \* model_metrics when the call started
    terminal,       \* per backend: completed dispatches and cache hits so far
    nreq            \* number of route_prompt calls started

keyVars == <<kin, kout>>
classifierVars == <<classification_cache, cls>>
cacheVars == <<cache, store, storeUp, now>>
routerVars == <<fallback_config, adapters, model_health, probe, model_metrics,
                pc, req, loc, result, trace, m0, terminal, nreq>>
vars == <<kin, kout, classification_cache, cls, cache, store, storeUp, now, cop, fallback_config, adapters,
          model_health, probe, model_metrics, pc, req, loc, result, trace, m0,
          terminal, nreq>>

NoneVal == [none |-> TRUE]

(***************************************************************************)
(* Ordered dictionaries                                                    *)
(***************************************************************************)
Range(s) == {s[i] : i \in 1..Len(s)}

MKeys(m) == {m[i][1] : i \in 1..Len(m)}

MHas(m, k) == k \in MKeys(m)

MGet(m, k, d) ==
    IF MHas(m, k) THEN (CHOOSE p \in Range(m) : p[1] = k)[2] ELSE d

\* dict[k] = v on an ordered dict: replaces in place, or appends
MPut(m, k, v) ==
    IF MHas(m, k)
    THEN [i \in 1..Len(m) |-> IF m[i][1] = k THEN <<k, v>> ELSE m[i]]
    ELSE Append(m, <<k, v>>)

\* the mapping an ordered dict denotes, without its order
MAsFun(m) == [k \in MKeys(m) |-> MGet(m, k, NoneVal)]

(***************************************************************************)
(* Cache._generate_key                                                     *)
(***************************************************************************)
KeyPrefix == "neuroroute:"

cache_relevant_fields ==
    {"model", "temperature", "max_tokens", "user_id", "priority", "language", "stream"}

\* every key the filtered dictionary can hold, in the order of Python's
\* string comparison, which is the order json.dumps(sort_keys=True) emits
SortedFields ==
    <<"forced_model", "language", "max_tokens", "model", "priority",
      "stream", "temperature", "user_id">>

\* json.dumps(d, sort_keys=True) of a flat dictionary: its items by ascending key
JsonSorted(d) ==
    LET present == SelectSeq(SortedFields, LAMBDA k : MHas(d, k))
    IN  [i \in 1..Len(present) |-> <<present[i], MGet(d, present[i], NoneVal)>>]

\* json.dumps(d) without sort_keys: the items in insertion order
JsonUnsorted(d) == d

\* {k: v for k, v in metadata.items() if k in cache_relevant_fields}
FilterRelevant(metadata) ==
    SelectSeq(metadata, LAMBDA p : p[1] \in cache_relevant_fields)

generate_key_unsorted(prompt, metadata) ==
    LET filtered == FilterRelevant(metadata)
        withForced == IF MHas(metadata, "model")
                      THEN MPut(filtered, "forced_model", MGet(metadata, "model", NoneVal))
                      ELSE filtered
    IN  [prefix |-> KeyPrefix,
         model_prefix |-> IF MHas(metadata, "model")
                          THEN <<MGet(metadata, "model", NoneVal)>> ELSE <<>>,
         key_hash |-> [prompt |-> prompt, metadata |-> JsonUnsorted(withForced)]]

\* The sha256 digest is represented by the serialized payload it is taken of.
generate_key(prompt, metadata) ==
    LET filtered == FilterRelevant(metadata)
        withForced == IF MHas(metadata, "model")
                      THEN MPut(filtered, "forced_model", MGet(metadata, "model", NoneVal))
                      ELSE filtered
    IN  [prefix |-> KeyPrefix,
         model_prefix |-> IF MHas(metadata, "model")
                          THEN <<MGet(metadata, "model", NoneVal)>> ELSE <<>>,
         key_hash |-> [prompt |-> prompt, metadata |-> JsonSorted(withForced)]]

(***************************************************************************)
(* Python dictionaries: response envelopes                                 *)
(***************************************************************************)
DHas(d, k) == k \in DOMAIN d

DGet(d, k, dflt) == IF k \in DOMAIN d THEN d[k] ELSE dflt

DDel(d, ks) == [k \in (DOMAIN d) \ ks |-> d[k]]

DPut(d, k, v) == [x \in (DOMAIN d) \cup {k} |-> IF x = k THEN v ELSE d[x]]

EmptyDict == [x \in {} |-> TRUE]

\* json.dumps / json.loads of an envelope: the text is represented by the
\* value it denotes
JsonDumps(d) == [json |-> d]
JsonLoads(s) == s.json

(***************************************************************************)
(* The Cache object (src/cache.py)                                         *)
(***************************************************************************)
DefaultTtl == 600
ReconnectDelay == 5
CacheMaxRetries == 3

EmptyStore == [entries |-> EmptyDict, sets |-> EmptyDict]

\* Cache._initialize_connections: builds both clients and pings
initialize_connections(c, up, t) ==
    IF up
    THEN [c EXCEPT !.client = TRUE, !.connection_errors = 0,
                   !.last_connection_attempt = t]
    ELSE [c EXCEPT !.enabled = FALSE, !.client = FALSE,
                   !.connection_errors = c.connection_errors + 1,
                   !.last_connection_attempt = t]

\* Cache.__init__
NewCache(enabled, up, t) ==
    LET c0 == [enabled |-> enabled, client |-> FALSE, connection_errors |-> 0,
               last_connection_attempt |-> 0]
    IN  IF enabled THEN initialize_connections(c0, up, t) ELSE c0

ensure_connection_unless_disabled(c, up, t) ==
    IF c.client /\ up THEN [ok |-> TRUE, cache |-> c]
    ELSE IF \/ t - c.last_connection_attempt < ReconnectDelay
            \/ c.connection_errors >= CacheMaxRetries
         THEN [ok |-> FALSE, cache |-> c]
    ELSE LET c2 == initialize_connections(c, up, t)
         IN  [ok |-> c2.client, cache |-> c2]

\* Cache._ensure_connection: [ok, cache]
ensure_connection(c, up, t) ==
    IF ~c.enabled THEN [ok |-> FALSE, cache |-> c]
    ELSE IF c.client /\ up THEN [ok |-> TRUE, cache |-> c]
    ELSE IF \/ t - c.last_connection_attempt < ReconnectDelay
            \/ c.connection_errors >= CacheMaxRetries
         THEN [ok |-> FALSE, cache |-> c]
    ELSE LET c2 == initialize_connections(c, up, t)
         IN  [ok |-> c2.client, cache |-> c2]

ProvenanceFields == {"from_cache", "cache_key", "cache_latency_ms"}

cache_get_by_prompt(c, st, up, t, prompt, metadata) ==
    LET conn == ensure_connection(c, up, t)
        key == generate_key(prompt, <<>>)
    IN  IF ~conn.ok THEN [cache |-> conn.cache, result |-> NoneVal]
        ELSE IF key \in DOMAIN st.entries
        THEN [cache |-> conn.cache,
              result |-> DPut(DPut(JsonLoads(st.entries[key]), "from_cache", TRUE),
                              "cache_key", key)]
        ELSE [cache |-> conn.cache, result |-> NoneVal]

\* Cache.get: [cache, result]; a command on an unreachable store raises and
\* the handler returns None
cache_get(c, st, up, t, prompt, metadata) ==
    LET conn == ensure_connection(c, up, t)
        key == generate_key(prompt, metadata)
    IN  IF ~conn.ok THEN [cache |-> conn.cache, result |-> NoneVal]
        ELSE IF key \in DOMAIN st.entries
        THEN [cache |-> conn.cache,
              result |-> DPut(DPut(JsonLoads(st.entries[key]), "from_cache", TRUE),
                              "cache_key", key)]
        ELSE [cache |-> conn.cache, result |-> NoneVal]

\* the envelope as Cache.set serializes it
response_to_cache(response) == DDel(response, ProvenanceFields)

skip_errors_only(stripped) == DGet(stripped, "error", FALSE)

\* "Don't cache errors or fallbacks"
skip_caching(stripped) ==
    DGet(stripped, "error", FALSE) \/ DGet(stripped, "fallback", FALSE)

\* Cache.set: [cache, store, result]
cache_set(c, st, up, t, prompt, response, metadata) ==
    LET conn == ensure_connection(c, up, t)
        key == generate_key(prompt, metadata)
        stripped == response_to_cache(response)
        ttl == MGet(metadata, "cache_ttl", DefaultTtl)
        model_used == DGet(stripped, "model_used", "")
        st1 == [st EXCEPT !.entries = DPut(st.entries, key, JsonDumps(stripped))]
        st2 == IF model_used # ""
               THEN [st1 EXCEPT !.sets =
                        DPut(st1.sets, model_used,
                             DGet(st1.sets, model_used, {}) \cup {key})]
               ELSE st1
    IN  IF ~conn.ok THEN [cache |-> conn.cache, store |-> st, result |-> FALSE]
        ELSE IF skip_caching(stripped)
        THEN [cache |-> conn.cache, store |-> st, result |-> FALSE]
        ELSE IF ttl <= 0     \* setex rejects the expire time and raises
        THEN [cache |-> conn.cache, store |-> st, result |-> FALSE]
        ELSE [cache |-> conn.cache, store |-> st2, result |-> TRUE]

\* Cache.clear: [cache, store, result]; model = "" stands for None
cache_clear(c, st, up, t, model) ==
    LET conn == ensure_connection(c, up, t)
        model_keys == DGet(st.sets, model, {})
        deleted == model_keys \cap DOMAIN st.entries
    IN  IF ~conn.ok THEN [cache |-> conn.cache, store |-> st, result |-> 0]
        ELSE IF model # ""
        THEN IF model_keys # {}
             THEN [cache |-> conn.cache,
                   store |-> [entries |-> DDel(st.entries, model_keys),
                              sets |-> DDel(st.sets, {model})],
                   result |-> Cardinality(deleted)]
             ELSE [cache |-> conn.cache, store |-> st, result |-> 0]
        ELSE [cache |-> conn.cache, store |-> EmptyStore,
              result |-> Cardinality(DOMAIN st.entries) + Cardinality(DOMAIN st.sets)]

CacheIdle ==
    /\ cache = NoneVal /\ store = EmptyStore /\ storeUp = TRUE /\ now = 0
    /\ cop = NoneVal

RouterIdle ==
    /\ fallback_config = NoneVal /\ adapters = {} /\ model_health = NoneVal
    /\ probe = NoneVal
    /\ model_metrics = NoneVal /\ pc = "idle" /\ req = NoneVal /\ loc = NoneVal
    /\ result = NoneVal /\ trace = <<>> /\ m0 = NoneVal /\ terminal = NoneVal
    /\ nreq = 0

(***************************************************************************)
(* SpecKey: _generate_key applied to two bounded inputs                    *)
(***************************************************************************)
MaxMetaLen == 3

KeyPrompts == {"Summarize X", "Summarize Y"}

KeyPairs ==
    {<<"model", "openai">>, <<"model", "anthropic">>,
     <<"temperature", "0.3">>, <<"temperature", "0.7">>,
     <<"request_id", "R1">>, <<"request_id", "R2">>,
     <<"use_cache", "true">>, <<"use_cache", "false">>}

DistinctKeys(m) == \A i, j \in 1..Len(m) : m[i][1] = m[j][1] => i = j

KeyMetas ==
    UNION {{m \in [1..n -> KeyPairs] : DistinctKeys(m)} : n \in 0..MaxMetaLen}

KeyIdle == kin = NoneVal /\ kout = NoneVal

ClassifierIdle == classification_cache = NoneVal /\ cls = NoneVal

KeyInit ==
    /\ ClassifierIdle
    /\ kin \in [p1 : {"Summarize X"}, p2 : KeyPrompts, m1 : KeyMetas, m2 : KeyMetas]
    /\ kout = NoneVal
    /\ CacheIdle
    /\ RouterIdle

KeyCompute ==
    /\ kout = NoneVal
    /\ kout' = [k1 |-> generate_key(kin.p1, kin.m1),
                k2 |-> generate_key(kin.p2, kin.m2)]
    /\ UNCHANGED <<kin, classifierVars, cacheVars, cop, routerVars>>

KeyNext == KeyCompute

SpecKey == KeyInit /\ [][KeyNext]_vars

\* the cache-relevant part of a metadata dictionary, as a mapping
RelevantPart(m) ==
    [k \in MKeys(m) \cap cache_relevant_fields |-> MGet(m, k, NoneVal)]

\* C5: the key is the same exactly when the prompts are equal and the two
\* metadata agree on the cache-relevant fields, whatever the key order and
\* whatever the other fields (request_id, use_cache) hold.
C5_FingerprintDependsOnRelevant ==
    kout # NoneVal =>
        ((kout.k1 = kout.k2) <=>
            (kin.p1 = kin.p2 /\ RelevantPart(kin.m1) = RelevantPart(kin.m2)))

\* two metadata in different key order, differing in request_id, one key
C5_Witness ==
    /\ kout # NoneVal
    /\ kin.m1 = <<<<"model", "openai">>, <<"temperature", "0.3">>, <<"request_id", "R1">>>>
    /\ kin.m2 = <<<<"request_id", "R2">>, <<"temperature", "0.3">>, <<"model", "openai">>>>
    /\ kin.p1 = kin.p2
    /\ kout.k1 = kout.k2

(***************************************************************************)
(* SpecCache: the Cache object driven by arbitrary get / set / clear calls *)
(* while entries expire, time passes and the store comes and goes          *)
(***************************************************************************)
MaxTime == 6

CachePrompts == {"Summarize X"}

CacheMetas ==
    {<<>>,
     <<<<"model", "openai">>, <<"request_id", "R1">>>>,
     <<<<"cache_ttl", 0>>>>}

\* an envelope from optional fields; "-" leaves the field out
MkEnv(model_used, error, fallback, prov) ==
    LET d1 == [response |-> "text"]
        d2 == IF model_used # "-" THEN DPut(d1, "model_used", model_used) ELSE d1
        d3 == IF error # "-" THEN DPut(d2, "error", error = "true") ELSE d2
        d4 == IF fallback # "-" THEN DPut(d3, "fallback", fallback = "true") ELSE d3
        d5 == IF prov # "-"
              THEN DPut(DPut(DPut(d4, "from_cache", prov = "true"),
                             "cache_key", generate_key("stale", <<>>)),
                        "cache_latency_ms", 5)
              ELSE d4
    IN  d5

CacheEnvs ==
    {MkEnv("openai", "-", "-", "-"),
     MkEnv("anthropic", "false", "-", "true"),
     MkEnv("-", "-", "-", "-"),
     MkEnv("openai", "true", "-", "-"),
     MkEnv("anthropic", "-", "true", "-"),
     MkEnv("-", "true", "true", "true")}

CacheInit ==
    /\ ClassifierIdle
    /\ now = 0
    /\ storeUp \in BOOLEAN
    /\ \E enabled \in BOOLEAN : cache = NewCache(enabled, storeUp, 0)
    /\ store = EmptyStore
    /\ cop = [op |-> "init"]
    /\ KeyIdle
    /\ RouterIdle

CacheGet(prompt, metadata) ==
    LET r == cache_get(cache, store, storeUp, now, prompt, metadata)
    IN  /\ cache' = r.cache
        /\ cop' = [op |-> "get", prompt |-> prompt, metadata |-> metadata,
                   result |-> r.result,
                   prev |-> IF cop.op = "set" /\ cop.prompt = prompt
                               /\ cop.metadata = metadata
                            THEN cop ELSE NoneVal]
        /\ UNCHANGED <<store, storeUp, now, kin, kout, classifierVars, routerVars>>

CacheSet(prompt, response, metadata) ==
    LET r == cache_set(cache, store, storeUp, now, prompt, response, metadata)
        key == generate_key(prompt, metadata)
    IN  /\ cache' = r.cache
        /\ store' = r.store
        /\ cop' = [op |-> "set", prompt |-> prompt, metadata |-> metadata,
                   response |-> response, result |-> r.result,
                   existed |-> key \in DOMAIN store.entries,
                   changed |-> r.store # store]
        /\ UNCHANGED <<storeUp, now, kin, kout, classifierVars, routerVars>>

CacheClear(model) ==
    LET r == cache_clear(cache, store, storeUp, now, model)
    IN  /\ cache' = r.cache
        /\ store' = r.store
        /\ cop' = [op |-> "clear", model |-> model, result |-> r.result]
        /\ UNCHANGED <<storeUp, now, kin, kout, classifierVars, routerVars>>

\* the store drops an entry whose TTL has run out
Expire(key) ==
    /\ storeUp
    /\ key \in DOMAIN store.entries
    /\ store' = [store EXCEPT !.entries = DDel(store.entries, {key})]
    /\ cop' = [op |-> "expire"]
    /\ UNCHANGED <<cache, storeUp, now, kin, kout, classifierVars, routerVars>>

StoreDown ==
    /\ storeUp
    /\ storeUp' = FALSE
    /\ cop' = [op |-> "down"]
    /\ UNCHANGED <<cache, store, now, kin, kout, classifierVars, routerVars>>

StoreUp ==
    /\ ~storeUp
    /\ storeUp' = TRUE
    /\ cop' = [op |-> "up"]
    /\ UNCHANGED <<cache, store, now, kin, kout, classifierVars, routerVars>>

Tick ==
    /\ now < MaxTime
    /\ now' = now + 1
    /\ cop' = [op |-> "tick"]
    /\ UNCHANGED <<cache, store, storeUp, kin, kout, classifierVars, routerVars>>

CacheNext ==
    \/ \E p \in CachePrompts, m \in CacheMetas : CacheGet(p, m)
    \/ \E p \in CachePrompts, m \in CacheMetas, e \in CacheEnvs : CacheSet(p, e, m)
    \/ \E k \in {"", "openai", "anthropic"} : CacheClear(k)
    \/ \E key \in DOMAIN store.entries : Expire(key)
    \/ StoreDown
    \/ StoreUp
    \/ Tick

SpecCache == CacheInit /\ [][CacheNext]_vars

ErrorOrFallback(env) == DGet(env, "error", FALSE) \/ DGet(env, "fallback", FALSE)

\* C3: a set with an error or fallback envelope changes nothing in the store
\* (no entry, no index member) and reports failure; a get that follows it,
\* when the key held no entry, returns None; and no stored entry is ever an
\* error or fallback envelope.
C3_NoErrorOrFallbackStored ==
    /\ \A key \in DOMAIN store.entries : ~ErrorOrFallback(JsonLoads(store.entries[key]))
    /\ (cop.op = "set" /\ ErrorOrFallback(cop.response))
        => (~cop.changed /\ cop.result = FALSE)
    /\ (cop.op = "get" /\ cop.prev # NoneVal /\ ErrorOrFallback(cop.prev.response)
            /\ ~cop.prev.existed)
        => cop.result = NoneVal

\* a get after a refused set of a fallback envelope, on a live connection
C3_Witness ==
    /\ cop.op = "get" /\ cop.prev # NoneVal
    /\ DGet(cop.prev.response, "fallback", FALSE)
    /\ ~DGet(cop.prev.response, "error", FALSE)
    /\ ~cop.prev.existed
    /\ cache.enabled /\ cache.client /\ storeUp
    /\ store.entries # EmptyDict

Backends == {"local", "openai", "anthropic"}

\* FallbackSettings.fallback_order
DefaultFallbackOrder ==
    [local |-> <<"openai", "anthropic">>,
     openai |-> <<"anthropic", "local">>,
     anthropic |-> <<"openai", "local">>]

\* RedisSettings.cache_responses
cache_responses == TRUE

\* get_fallback_config returns settings.fallback.dict(): for a Settings object
\* a plain dict, on which the router's attribute reads (.enabled, .max_retries,
\* .retry_on_timeout, .fallback_order) raise AttributeError; is_dict is FALSE for
\* an injected settings object whose fallback.dict() yields attributes.
AttributeError == [raised |-> "AttributeError"]

ZeroMetrics ==
    [requests |-> 0, successes |-> 0, failures |-> 0, timeout_count |-> 0,
     cache_hit_count |-> 0]

\* ModelRouter._update_metrics: the counters
update_metrics(mm, model_key, success, from_cache) ==
    IF model_key \notin DOMAIN mm THEN mm
    ELSE [mm EXCEPT ![model_key] =
            [@ EXCEPT !.requests = @ + 1,
                      !.successes = IF success THEN @ + 1 ELSE @,
                      !.failures = IF success THEN @ ELSE @ + 1,
                      !.cache_hit_count = IF from_cache THEN @ + 1 ELSE @]]

\* self.model_metrics[model_key]["timeout_count"] += 1
count_timeout(mm, model_key) ==
    [mm EXCEPT ![model_key] = [@ EXCEPT !.timeout_count = @ + 1]]

get_fallback_model_order_reversed(cfg, adp, primary_model) ==
    LET default == <<"local", "anthropic", "openai">>
        moved == IF primary_model \in Range(default)
                 THEN Append(SelectSeq(default, LAMBDA m : m # primary_model), primary_model)
                 ELSE default
        configured == cfg.fallback_order[primary_model]
        fallback_models ==
            IF cfg.enabled /\ primary_model \in DOMAIN cfg.fallback_order
            THEN [i \in 1..Len(configured) |-> configured[Len(configured) + 1 - i]]
            ELSE moved
    IN  SelectSeq(fallback_models, LAMBDA m : m \in adp)

\* ModelRouter._get_fallback_model_order, for a fallback_config with attributes
get_fallback_model_order(cfg, adp, primary_model) ==
    LET default == <<"openai", "anthropic", "local">>
        moved == IF primary_model \in Range(default)
                 THEN Append(SelectSeq(default, LAMBDA m : m # primary_model), primary_model)
                 ELSE default
        fallback_models ==
            IF cfg.enabled /\ primary_model \in DOMAIN cfg.fallback_order
            THEN cfg.fallback_order[primary_model]
            ELSE moved
    IN  SelectSeq(fallback_models, LAMBDA m : m \in adp)

\* fallback_models[:max_retries]
Take(seq, n) == SubSeq(seq, 1, IF n < Len(seq) THEN n ELSE Len(seq))

(***************************************************************************)
(* Adapters: what one generate_response call can do                        *)
(***************************************************************************)
\* the texts of upstream failures, and what the router's substring tests
\* ("rate limit", "server error", "5") find in them
ErrMsgs == {"Rate limit exceeded", "Internal server error", "Connection refused"}

MsgContains(msg, sub) ==
    \/ msg = "Rate limit exceeded" /\ sub = "rate limit"
    \/ msg = "Internal server error" /\ sub = "server error"

ErrorText(msg) ==
    CASE msg = "Rate limit exceeded" -> "Error: Rate limit exceeded"
      [] msg = "Internal server error" -> "Error: Internal server error"
      [] msg = "Connection refused" -> "Error: Connection refused"
      [] OTHER -> "Error: Request timed out after 60.0s"

TimeoutMessage == "Request timed out after 60.0s"

\* a call returns an envelope, returns the error-marked envelope that
\* ModelAdapter.measure_latency makes of an exception, raises (an adapter
\* whose generate_response is not wrapped), or is cut off by the deadline
Outcomes ==
    {[kind |-> "ok", text |-> "answer A"],
     [kind |-> "error_envelope", text |-> "Connection refused"],
     [kind |-> "timeout", text |-> ""]}
    \cup {[kind |-> "raise", text |-> m] : m \in ErrMsgs}

FallbackOutcomes ==
    {[kind |-> "ok", text |-> "answer A"],
     [kind |-> "error_envelope", text |-> "Connection refused"],
     [kind |-> "timeout", text |-> ""]}

\* the dict a returning call hands to the router
adapter_response(model_key, outcome) ==
    IF outcome.kind = "ok"
    THEN [response |-> outcome.text, model_used |-> model_key, latency_ms |-> 1]
    ELSE [response |-> ErrorText(outcome.text), error |-> TRUE,
          error_details |-> outcome.text, model_used |-> model_key,
          latency_ms |-> 1]

\* error_type as route_prompt derives it from str(e)
error_type_of(msg) ==
    IF MsgContains(msg, "rate limit") THEN "rate_limit"
    ELSE IF MsgContains(msg, "server error") \/ MsgContains(msg, "5") THEN "server_error"
    ELSE "unknown"

should_fallback(cfg, error_type) ==
    cfg.enabled /\ (\/ error_type = "rate_limit" /\ cfg.retry_on_rate_limit
                    \/ error_type = "server_error" /\ cfg.retry_on_server_error
                    \/ error_type = "unknown")

Ev(ev, model, out) == [ev |-> ev, model |-> model, out |-> out]

\* the class of a failed call: "timeout", or what the substring tests make of
\* the error text
error_class(outcome) ==
    IF outcome.kind = "ok" THEN "none"
    ELSE IF outcome.kind = "timeout" THEN "timeout"
    ELSE error_type_of(outcome.text)

RetEv(model, outcome) ==
    [ev |-> "ret", model |-> model, out |-> outcome.kind,
     class |-> error_class(outcome), text |-> outcome.text]

Bump(t, model_key) == [t EXCEPT ![model_key] = @ + 1]

(***************************************************************************)
(* ModelRouter.route_prompt, one action per stretch between suspensions    *)
(***************************************************************************)
MaxRequests == 2

AllFailedText(msg) ==
    CASE msg = "Rate limit exceeded" ->
            "Error: All models failed. Original error: Rate limit exceeded"
      [] msg = "Internal server error" ->
            "Error: All models failed. Original error: Internal server error"
      [] msg = "Connection refused" ->
            "Error: All models failed. Original error: Connection refused"
      [] OTHER -> "Error: All models failed. Original error: Request timed out after 60.0s"

\* ModelRouter._preprocess_prompt cuts a prompt longer than
\* settings.api.max_prompt_length; the prompts routed here are shorter
MaxPromptLength == 100000

PromptLen(prompt) == 11

preprocess_prompt(prompt) ==
    IF MaxPromptLength > 0 /\ PromptLen(prompt) > MaxPromptLength
    THEN "Summarize" ELSE prompt

mark_cached_no_latency(cached_response, cache_latency_ms) ==
    DPut(cached_response, "from_cache", TRUE)

\* cached_response["cache_latency_ms"] = ...; cached_response["from_cache"] = True
mark_cached(cached_response, cache_latency_ms) ==
    DPut(DPut(cached_response, "cache_latency_ms", cache_latency_ms),
         "from_cache", TRUE)

\* the request's use_cache with the configured default left out
use_cache_ignoring_metadata(metadata) == cache_responses

\* use_cache = metadata.get("use_cache", self.settings.redis.cache_responses)
use_cache_of(metadata) == MGet(metadata, "use_cache", cache_responses)

\* route_prompt up to the end of "Step 1": the cache read and, on a hit,
\* the return of the cached envelope
RouteBegin(prompt, metadata) ==
    /\ pc = "idle"
    /\ nreq < MaxRequests
    /\ LET request_id == MGet(metadata, "request_id", "req_auto")
           use_cache == use_cache_of(metadata)
           r == cache_get(cache, store, storeUp, now, prompt, metadata)
           hit == use_cache /\ r.result # NoneVal
           cached_response == mark_cached(r.result, 1)
           model_key == DGet(cached_response, "model_used", "")
       IN  /\ req' = [prompt |-> prompt, metadata |-> metadata,
                      request_id |-> request_id, use_cache |-> use_cache,
                      start_time |-> now,
                      after |-> cop,
                      connected |-> cache.enabled /\ cache.client /\ storeUp]
           /\ nreq' = nreq + 1
           /\ m0' = model_metrics
           /\ cache' = IF use_cache THEN r.cache ELSE cache
           /\ loc' = NoneVal
           /\ IF hit
              THEN /\ model_metrics' = update_metrics(model_metrics, model_key, TRUE, TRUE)
                   /\ terminal' = IF model_key \in Backends
                                  THEN Bump(terminal, model_key) ELSE terminal
                   /\ result' = cached_response
                   /\ trace' = <<Ev("cache_get", model_key, "hit")>>
                   /\ pc' = "done"
              ELSE /\ trace' = IF use_cache THEN <<Ev("cache_get", "", "miss")>> ELSE <<>>
                   /\ pc' = "select"
                   /\ UNCHANGED <<model_metrics, terminal, result>>
    /\ UNCHANGED <<store, storeUp, now, cop, kin, kout, classifierVars, fallback_config, adapters,
                   model_health, probe>>

\* int((time.time() - start_time) * 1000)
total_latency == (now - req.start_time) * 1000

\* "Error: No model adapters available"
no_adapter_response(request_id) ==
    [model_used |-> "none", response |-> "Error: No model adapters available",
     error |-> TRUE, request_id |-> request_id, latency_ms |-> total_latency]

\* model_registry[model_key]["supports_streaming"]: every registered backend
\* declares streaming
supports_streaming(model_key) == model_key \in Backends

\* Steps 2 to 6 up to the adapter call: model selection, the health gate,
\* the availability gate, the hand-over of a streaming request to
\* _handle_streaming_request, and the request counted in the metrics.
\* classified is the key the classifier's scoring yields for the prompt.
RouteSelect(classified) ==
    /\ pc = "select"
    /\ LET md == req.metadata
           requested == MGet(md, "model", "")
           by_user == MHas(md, "model") /\ requested \in adapters
           \* PromptClassifier.classify_prompt returns a registered metadata.model
           from_classifier == IF MHas(md, "model") /\ requested \in Backends
                              THEN requested ELSE classified
           key0 == IF by_user THEN requested ELSE from_classifier
           info0 == [selected_model |-> key0,
                     selection_method |->
                        IF by_user THEN "user_specified"
                        ELSE IF MHas(md, "model") THEN "fallback_classification"
                        ELSE "classifier"]
           tr0 == IF by_user THEN trace ELSE Append(trace, Ev("classify", key0, ""))
           unhealthy == model_health[key0] = "unhealthy"
           alts == SelectSeq(get_fallback_model_order(fallback_config, adapters, key0),
                             LAMBDA a : model_health[a] # "unhealthy")
           swap1 == unhealthy /\ Len(alts) > 0
           key1 == IF swap1 THEN alts[1] ELSE key0
           info1 == IF swap1
                    THEN DPut(DPut(info0, "health_fallback", TRUE), "original_model", key1)
                    ELSE info0
           unavailable == key1 \notin adapters
           fallback_models == get_fallback_model_order(fallback_config, adapters, key1)
           key2 == IF unavailable THEN fallback_models[1] ELSE key1
           info2 == IF unavailable
                    THEN DPut(DPut(info1, "fallback_reason",
                                   "Selected model adapter not available"),
                              "original_model", key2)
                    ELSE info1
       IN  IF (unhealthy \/ unavailable) /\ fallback_config.is_dict
           THEN /\ result' = AttributeError
                /\ pc' = "done"
                /\ trace' = tr0
                /\ UNCHANGED <<loc, model_metrics>>
           ELSE IF unavailable /\ fallback_models = <<>>
           THEN /\ result' = no_adapter_response(req.request_id)
                /\ pc' = "done"
                /\ trace' = tr0
                /\ UNCHANGED <<loc, model_metrics>>
           ELSE IF MGet(md, "stream", FALSE) /\ supports_streaming(key2)
           THEN /\ loc' = [model_key |-> key2, classification_info |-> info2]
                /\ trace' = tr0
                /\ pc' = "stream"
                /\ UNCHANGED <<result, model_metrics>>
           ELSE /\ loc' = [model_key |-> key2, classification_info |-> info2]
                /\ model_metrics' = update_metrics(model_metrics, key2, FALSE, FALSE)
                /\ trace' = Append(tr0, Ev("call", key2, "primary"))
                /\ pc' = "dispatch"
                /\ UNCHANGED result
    /\ UNCHANGED <<cacheVars, cop, kin, kout, classifierVars, fallback_config, adapters, model_health, probe,
                   req, m0, terminal, nreq>>

\* the first position from i on in fallback_models[:max_retries] that is not
\* the primary ("continue"), 0 when the loop runs out
next_attempt(slice, primary_model, i) ==
    LET later == {j \in i..Len(slice) : slice[j] # primary_model}
    IN  IF later = {} THEN 0 ELSE CHOOSE j \in later : \A k \in later : j <= k

\* "Error: All models failed. Original error: ..."
all_failed_response(primary_model, fallback_models, max_retries, error_message, request_id) ==
    [model_used |-> "none", response |-> AllFailedText(error_message),
     error |-> TRUE, request_id |-> request_id, latency_ms |-> total_latency,
     attempts |-> <<primary_model>> \o
                  Take(SelectSeq(fallback_models, LAMBDA m : m # primary_model),
                       max_retries)]

\* the error envelope of a primary failure that is not retried
error_response(model_key, error_message, error_type, request_id) ==
    [model_used |-> model_key, response |-> ErrorText(error_message),
     error |-> TRUE, error_type |-> error_type, request_id |-> request_id,
     latency_ms |-> total_latency]

\* _handle_fallback from position i of its loop, up to the next adapter call
\* or, with the loop exhausted, the all-failed envelope
handle_fallback(mm, tr, primary_model, info, error_message, i) ==
    LET fallback_models == get_fallback_model_order(fallback_config, adapters,
                                                    primary_model)
        max_retries == fallback_config.max_retries
        slice == Take(fallback_models, max_retries)
        j == next_attempt(slice, primary_model, i)
    IN  IF j = 0
        THEN /\ result' = all_failed_response(primary_model, fallback_models,
                                              max_retries, error_message,
                                              req.request_id)
             /\ model_metrics' = mm
             /\ trace' = tr
             /\ pc' = "done"
             /\ loc' = [model_key |-> primary_model, classification_info |-> info]
        ELSE /\ model_metrics' = update_metrics(mm, slice[j], FALSE, FALSE)
             /\ trace' = Append(tr, Ev("call", slice[j], "fallback"))
             /\ loc' = [model_key |-> primary_model, classification_info |-> info,
                        error_message |-> error_message, idx |-> j,
                        fallback_model |-> slice[j]]
             /\ pc' = "fallback"
             /\ UNCHANGED result

\* Step 6 from the return of the adapter call: success bookkeeping, or the
\* two except clauses of route_prompt
RouteDispatch(outcome) ==
    /\ pc = "dispatch"
    /\ LET model_key == loc.model_key
           info == loc.classification_info
           tr == Append(trace, RetEv(model_key, outcome))
           failed == update_metrics(model_metrics, model_key, FALSE, FALSE)
       IN  /\ terminal' = Bump(terminal, model_key)
           /\ CASE outcome.kind \in {"ok", "error_envelope"} ->
                    LET response ==
                            DPut(DPut(DPut(DPut(adapter_response(model_key, outcome),
                                "classification", info), "model_used", model_key),
                                "request_id", req.request_id), "from_cache", FALSE)
                    IN  /\ model_metrics' = update_metrics(model_metrics, model_key,
                                                           TRUE, FALSE)
                        /\ trace' = tr
                        /\ loc' = [model_key |-> model_key,
                                   classification_info |-> info,
                                   response |-> response]
                        /\ IF req.use_cache
                           THEN pc' = "cache_set" /\ UNCHANGED result
                           ELSE pc' = "done" /\ result' = response
                [] outcome.kind = "timeout" ->
                    IF fallback_config.is_dict
                    THEN /\ result' = AttributeError
                         /\ model_metrics' = count_timeout(failed, model_key)
                         /\ trace' = tr
                         /\ pc' = "done"
                         /\ UNCHANGED loc
                    ELSE IF fallback_config.retry_on_timeout
                    THEN handle_fallback(count_timeout(failed, model_key), tr,
                                         model_key, info, TimeoutMessage, 1)
                    ELSE /\ result' = error_response(model_key, TimeoutMessage,
                                                     "timeout", req.request_id)
                         /\ model_metrics' = count_timeout(failed, model_key)
                         /\ trace' = tr
                         /\ pc' = "done"
                         /\ UNCHANGED loc
                [] outcome.kind = "raise" ->
                    IF fallback_config.is_dict
                    THEN /\ result' = AttributeError
                         /\ model_metrics' = failed
                         /\ trace' = tr
                         /\ pc' = "done"
                         /\ UNCHANGED loc
                    ELSE IF should_fallback(fallback_config, error_type_of(outcome.text))
                    THEN handle_fallback(failed, tr, model_key, info, outcome.text, 1)
                    ELSE /\ result' = error_response(model_key, outcome.text,
                                                     error_type_of(outcome.text),
                                                     req.request_id)
                         /\ model_metrics' = failed
                         /\ trace' = tr
                         /\ pc' = "done"
                         /\ UNCHANGED loc
    /\ UNCHANGED <<cacheVars, cop, kin, kout, classifierVars, fallback_config, adapters, model_health, probe,
                   req, m0, nreq>>

\* "Primary model (P) failed: <error_message>"
fallback_reason(primary_model, error_message) ==
    [primary |-> primary_model, error_message |-> error_message]

\* one turn of the loop of _handle_fallback from the return of the adapter call
RouteFallback(outcome) ==
    /\ pc = "fallback"
    /\ LET fallback_model == loc.fallback_model
           tr == Append(trace, RetEv(fallback_model, outcome))
       IN  /\ terminal' = Bump(terminal, fallback_model)
           /\ IF outcome.kind \in {"ok", "error_envelope"}
              THEN LET response ==
                           DPut(DPut(DPut(DPut(DPut(DPut(
                               adapter_response(fallback_model, outcome),
                               "model_used", fallback_model), "fallback", TRUE),
                               "fallback_reason",
                               fallback_reason(loc.model_key, loc.error_message)),
                               "request_id", req.request_id), "from_cache", FALSE),
                               "classification", loc.classification_info)
                   IN  /\ model_metrics' = update_metrics(model_metrics, fallback_model,
                                                          TRUE, FALSE)
                       /\ trace' = tr
                       /\ loc' = [model_key |-> loc.model_key,
                                  classification_info |-> loc.classification_info,
                                  response |-> response]
                       /\ IF req.use_cache
                          THEN pc' = "cache_set" /\ UNCHANGED result
                          ELSE pc' = "done" /\ result' = response
              ELSE handle_fallback(update_metrics(model_metrics, fallback_model,
                                                  FALSE, FALSE),
                                   tr, loc.model_key, loc.classification_info,
                                   loc.error_message, loc.idx + 1)
    /\ UNCHANGED <<cacheVars, cop, kin, kout, classifierVars, fallback_config, adapters, model_health, probe,
                   req, m0, nreq>>

\* Step 7 and the return: cache.set(prompt, response, metadata); the fallback
\* path hands cache.set the processed prompt
RouteCacheSet ==
    /\ pc = "cache_set"
    /\ LET response == loc.response
           prompt == IF DGet(response, "fallback", FALSE)
                     THEN preprocess_prompt(req.prompt) ELSE req.prompt
           r == cache_set(cache, store, storeUp, now, prompt, response, req.metadata)
       IN  /\ cache' = r.cache
           /\ store' = r.store
           /\ cop' = [op |-> "set", prompt |-> prompt, metadata |-> req.metadata,
                      response |-> response, result |-> r.result,
                      existed |-> generate_key(prompt, req.metadata)
                                     \in DOMAIN store.entries,
                      changed |-> r.store # store]
           /\ trace' = Append(trace, Ev("cache_set", response["model_used"],
                                        IF r.result THEN "stored" ELSE "refused"))
           /\ result' = response
           /\ pc' = "done"
    /\ UNCHANGED <<storeUp, now, kin, kout, classifierVars, fallback_config, adapters, model_health, probe,
                   model_metrics, req, loc, m0, terminal, nreq>>

\* the caller has the outcome of route_prompt; the router is free for the
\* next call
RouteReturn ==
    /\ pc = "done"
    /\ pc' = "idle"
    /\ req' = NoneVal
    /\ loc' = NoneVal
    /\ result' = NoneVal
    /\ trace' = <<>>
    /\ m0' = NoneVal
    /\ UNCHANGED <<cacheVars, cop, kin, kout, classifierVars, fallback_config, adapters, model_health, probe,
                   model_metrics, terminal, nreq>>

\* FallbackSettings as the router holds it
FallbackConfig(is_dict, enabled, max_retries, on_timeout, on_rate_limit, on_server_error) ==
    [is_dict |-> is_dict, enabled |-> enabled, max_retries |-> max_retries,
     retry_on_timeout |-> on_timeout, retry_on_rate_limit |-> on_rate_limit,
     retry_on_server_error |-> on_server_error,
     fallback_order |-> DefaultFallbackOrder]

\* (fallback_config, adapters, cache enabled) at construction
RouterSetups ==
    {<<FallbackConfig(TRUE, TRUE, 2, TRUE, TRUE, TRUE), Backends, TRUE>>,
     <<FallbackConfig(TRUE, TRUE, 2, TRUE, TRUE, TRUE), Backends, FALSE>>,
     <<FallbackConfig(TRUE, FALSE, 2, TRUE, TRUE, TRUE), Backends, TRUE>>,
     <<FallbackConfig(FALSE, TRUE, 2, TRUE, TRUE, TRUE), Backends, TRUE>>,
     <<FallbackConfig(FALSE, TRUE, 1, TRUE, TRUE, TRUE), {"local", "anthropic"}, TRUE>>,
     <<FallbackConfig(FALSE, FALSE, 2, TRUE, TRUE, TRUE), Backends, TRUE>>,
     <<FallbackConfig(FALSE, TRUE, 2, FALSE, FALSE, FALSE), Backends, TRUE>>}

RoutePrompts == {"Summarize X"}

RouteMetas ==
    {<<>>,
     <<<<"model", "anthropic">>, <<"request_id", "R1">>>>,
     <<<<"request_id", "R2">>, <<"model", "anthropic">>>>,
     <<<<"use_cache", FALSE>>>>}

Init ==
    /\ ClassifierIdle
    /\ now = 0
    /\ storeUp = TRUE
    /\ \E setup \in RouterSetups :
            /\ fallback_config = setup[1]
            /\ adapters = setup[2]
            /\ cache = NewCache(setup[3], storeUp, 0)
    /\ store = EmptyStore
    /\ cop = [op |-> "init"]
    /\ KeyIdle
    /\ model_health = [b \in Backends |-> IF b \in adapters THEN "unknown" ELSE "error"]
    /\ probe = NoneVal
    /\ model_metrics = [b \in adapters |-> ZeroMetrics]
    /\ pc = "idle"
    /\ req = NoneVal
    /\ loc = NoneVal
    /\ result = NoneVal
    /\ trace = <<>>
    /\ m0 = NoneVal
    /\ terminal = [b \in Backends |-> 0]
    /\ nreq = 0

\* One route_prompt call at a time. Between calls entries expire, the cache is
\* cleared and the store comes and goes; the store may also come or go while
\* a call waits to write its response.
Next ==
    \/ \E p \in RoutePrompts, m \in RouteMetas : RouteBegin(p, m)
    \/ \E k \in Backends : RouteSelect(k)
    \/ \E o \in Outcomes : RouteDispatch(o)
    \/ \E o \in FallbackOutcomes : RouteFallback(o)
    \/ RouteCacheSet
    \/ RouteReturn
    \/ pc = "idle" /\ \E key \in DOMAIN store.entries : Expire(key)
    \/ pc = "idle" /\ store # EmptyStore /\ CacheClear("")
    \/ pc \in {"idle", "cache_set"} /\ StoreDown
    \/ pc \in {"idle", "cache_set"} /\ StoreUp

Spec == Init /\ [][Next]_vars

(***************************************************************************)
(* Properties of route_prompt                                              *)
(***************************************************************************)
IsEnvelope(r) == DHas(r, "response")

Calls(kind) ==
    SelectSeq(trace, LAMBDA e : e.ev = "call" /\ e.out = kind)

Rets == SelectSeq(trace, LAMBDA e : e.ev = "ret")

\* the call in progress dispatched to a primary whose call failed by
\* exception or by deadline
PrimaryFailed ==
    /\ Len(Rets) > 0
    /\ Rets[1].out \in {"raise", "timeout"}

StepRank(e) ==
    CASE e.ev = "cache_get" -> 1
      [] e.ev = "classify" -> 2
      [] e.ev \in {"call", "ret"} -> 3
      [] OTHER -> 4

\* C1: within one route call the cache read precedes the selection, which
\* precedes every adapter call, which all have returned before the cache
\* write; an adapter is called only after the cache read missed; and the
\* finished call has handed the caller one envelope.
C1_SequentialOneEnvelope ==
    /\ \A i, j \in 1..Len(trace) :
          i < j => StepRank(trace[i]) <= StepRank(trace[j])
    /\ \A i \in 1..Len(trace) :
          trace[i].ev = "cache_get" /\ trace[i].out = "hit" => Len(trace) = 1
    /\ \A i \in 1..Len(trace) :
          trace[i].ev = "cache_set" => Len(Rets) = Len(Calls("primary")) + Len(Calls("fallback"))
    /\ pc = "done" => IsEnvelope(result)

\* C2: a route call that starts right after a route call of the same prompt
\* and the same cache-relevant metadata has written its non-error,
\* non-fallback envelope, with caching on and the store connected, returns
\* that envelope's text with from_cache = TRUE and cache_latency_ms, and
\* calls neither the classifier nor an adapter.
C2_SecondRouteHitsCache ==
    (/\ pc # "idle"
     /\ req.use_cache /\ req.connected
     /\ req.after.op = "set"
     /\ ~ErrorOrFallback(req.after.response)
     /\ req.after.prompt = req.prompt
     /\ RelevantPart(req.after.metadata) = RelevantPart(req.metadata))
        => /\ pc = "done"
           /\ IsEnvelope(result)
           /\ DGet(result, "from_cache", FALSE) = TRUE
           /\ result["response"] = req.after.response["response"]
           /\ DHas(result, "cache_latency_ms")
           /\ \A i \in 1..Len(trace) : trace[i].ev \notin {"classify", "call", "ret"}

\* the second call carries another request_id, in another key order
C2_Witness ==
    /\ pc = "done"
    /\ req.use_cache /\ req.connected
    /\ req.after.op = "set"
    /\ req.after.metadata = <<<<"model", "anthropic">>, <<"request_id", "R1">>>>
    /\ req.metadata = <<<<"request_id", "R2">>, <<"model", "anthropic">>>>
    /\ DGet(result, "from_cache", FALSE) = TRUE
    /\ result["request_id"] = "R1"

\* the fallback policy as stated: fallback enabled and the class eligible
PolicyEligible(cfg, class) ==
    cfg.enabled /\ (\/ class = "timeout" /\ cfg.retry_on_timeout
                    \/ class = "rate_limit" /\ cfg.retry_on_rate_limit
                    \/ class = "server_error" /\ cfg.retry_on_server_error
                    \/ class = "unknown")

\* C6: after a failed primary dispatch a fallback adapter is called only if
\* fallback is enabled and the error class is eligible; otherwise no other
\* adapter is called and the call ends with an error envelope naming the
\* primary.
C6_FallbackOnlyIfEnabledAndEligible ==
    (PrimaryFailed /\ ~PolicyEligible(fallback_config, Rets[1].class))
        => /\ Len(Calls("fallback")) = 0
           /\ pc = "done"
           /\ IsEnvelope(result)
           /\ DGet(result, "error", FALSE) = TRUE
           /\ result["model_used"] = Rets[1].model

\* C7: when the primary returns an error-marked envelope the call is not
\* counted as a success of that backend, and with an eligible error class the
\* fallback order is walked; the envelope is not returned as the response.
C7_ErrorEnvelopeIsFailure ==
    (Len(Rets) > 0 /\ Rets[1].out = "error_envelope")
        => /\ model_metrics[Rets[1].model].successes = m0[Rets[1].model].successes
           /\ (PolicyEligible(fallback_config, Rets[1].class)
                 /\ get_fallback_model_order(fallback_config, adapters, Rets[1].model) # <<>>)
               => Len(Calls("fallback")) > 0
           /\ pc = "done" =>
                (IsEnvelope(result) /\ DGet(result, "error_details", "") = "")

\* P's fallback order as configured, restricted to the backends with an
\* adapter, P skipped
PolicyOrder(primary_model) ==
    SelectSeq(fallback_config.fallback_order[primary_model],
              LAMBDA m : m \in adapters /\ m # primary_model)

FallbackSucceeded ==
    /\ pc = "done"
    /\ PrimaryFailed
    /\ Len(Rets) > 1
    /\ Rets[Len(Rets)].out = "ok"

C10_OutcomesCountedOnce ==
    pc \in {"idle", "done"} =>
        \A b \in adapters :
            /\ model_metrics[b].requests = terminal[b]
            /\ model_metrics[b].successes + model_metrics[b].failures = terminal[b]

\* the primary and every fallback called have failed, under a policy that
\* makes the primary's error class eligible for fallback
AllAttemptsFailed ==
    /\ pc = "done"
    /\ PrimaryFailed
    /\ PolicyEligible(fallback_config, Rets[1].class)
    /\ \A i \in 1..Len(Rets) : Rets[i].out \in {"raise", "timeout"}

\* C11: when the primary and every fallback attempted have failed, the call
\* returns an envelope with model_used = "none", error = TRUE and attempts
\* equal to the backends invoked, in the order of their invocation.
C11_AttemptsAreTheInvoked ==
    AllAttemptsFailed
        => /\ IsEnvelope(result)
           /\ result["model_used"] = "none"
           /\ DGet(result, "error", FALSE) = TRUE
           /\ DGet(result, "attempts", <<>>) = [i \in 1..Len(Rets) |-> Rets[i].model]

\* C12: every error envelope handed to the caller has error_type, a response
\* message, latency_ms and the request's own request_id.
C12_ErrorEnvelopeFields ==
    (pc = "done" /\ IsEnvelope(result) /\ DGet(result, "error", FALSE) = TRUE)
        => /\ DHas(result, "error_type")
           /\ DHas(result, "latency_ms")
           /\ DGet(result, "request_id", "") = req.request_id

(***************************************************************************)
(* SpecGate: health probes, a peer process on the same store, and the      *)
(* health and availability gates of route_prompt                           *)
(***************************************************************************)
MaxGateRequests == 1

\* hasattr(adapter, "check_health"): only LocalLMStudioAdapter defines it
HasCheckHealth(model_key) == model_key = "local"

\* how the call a probe makes can end: check_health's GET succeeds or fails;
\* generate_response returns an envelope, returns the error-marked envelope of
\* measure_latency, or raises (an adapter that is not wrapped)
ProbeOutcomes(model_key) ==
    IF HasCheckHealth(model_key)
    THEN {[kind |-> "ok", text |-> "OK"],
          [kind |-> "raise", text |-> "Connection refused"]}
    ELSE {[kind |-> "ok", text |-> "OK"],
          [kind |-> "error_envelope", text |-> "Connection refused"],
          [kind |-> "raise", text |-> "Connection refused"]}

\* the status _check_models_health stores for one backend
probe_status(model_key, outcome) ==
    IF HasCheckHealth(model_key)
    THEN (IF outcome.kind = "ok" THEN "healthy" ELSE "unhealthy")
    ELSE (IF outcome.kind = "raise" THEN "unhealthy" ELSE "healthy")

\* one turn of the loop of _check_models_health
HealthProbe(model_key, outcome) ==
    /\ model_key \in adapters
    /\ outcome \in ProbeOutcomes(model_key)
    /\ model_health' = [model_health EXCEPT ![model_key] =
                            probe_status(model_key, outcome)]
    /\ probe' = [model |-> model_key, kind |-> outcome.kind]
    /\ UNCHANGED <<cacheVars, cop, kin, kout, classifierVars, fallback_config, adapters, model_metrics,
                   pc, req, loc, result, trace, m0, terminal, nreq>>

\* the envelope route_prompt returns for an answer of model_key
success_response(model_key, outcome, info, request_id) ==
    DPut(DPut(DPut(DPut(adapter_response(model_key, outcome),
        "classification", info), "model_used", model_key),
        "request_id", request_id), "from_cache", FALSE)

\* another process that shares the store, and has an adapter for model_key,
\* caches its answer to the prompt
PeerSet(prompt, model_key) ==
    /\ storeUp
    /\ LET response == success_response(model_key, [kind |-> "ok", text |-> "answer P"],
                           [selected_model |-> model_key,
                            selection_method |-> "classifier"], "R0")
           r == cache_set(NewCache(TRUE, TRUE, now), store, TRUE, now, prompt,
                          response, <<>>)
       IN  /\ r.store # store
           /\ store' = r.store
    /\ cop' = [op |-> "peer"]
    /\ UNCHANGED <<cache, storeUp, now, kin, kout, classifierVars, routerVars>>

\* an order that lists each backend first in its own list
SelfListedOrder ==
    [local |-> <<"local", "openai", "anthropic">>,
     openai |-> <<"openai", "anthropic", "local">>,
     anthropic |-> <<"anthropic", "openai", "local">>]

\* (fallback_config, adapters) at construction; without an OpenAI API key the
\* OpenAIAdapter constructor raises and the backend has no adapter
GateSetups ==
    {<<FallbackConfig(TRUE, TRUE, 2, TRUE, TRUE, TRUE), Backends>>,
     <<FallbackConfig(TRUE, TRUE, 2, TRUE, TRUE, TRUE), {"local", "anthropic"}>>,
     <<FallbackConfig(FALSE, TRUE, 2, TRUE, TRUE, TRUE), Backends>>,
     <<FallbackConfig(FALSE, TRUE, 2, TRUE, TRUE, TRUE), {"local", "anthropic"}>>,
     <<FallbackConfig(FALSE, TRUE, 2, TRUE, TRUE, TRUE), {}>>,
     <<[FallbackConfig(FALSE, TRUE, 2, TRUE, TRUE, TRUE)
            EXCEPT !.fallback_order = SelfListedOrder], Backends>>}

GateOutcomes == {[kind |-> "ok", text |-> "answer A"], [kind |-> "timeout", text |-> ""]}

GateInit ==
    /\ ClassifierIdle
    /\ now = 0
    /\ storeUp = TRUE
    /\ \E setup \in GateSetups :
            /\ fallback_config = setup[1]
            /\ adapters = setup[2]
    /\ cache = NewCache(TRUE, storeUp, 0)
    /\ store = EmptyStore
    /\ cop = [op |-> "init"]
    /\ KeyIdle
    /\ model_health = [b \in Backends |-> IF b \in adapters THEN "unknown" ELSE "error"]
    /\ probe = NoneVal
    /\ model_metrics = [b \in adapters |-> ZeroMetrics]
    /\ pc = "idle"
    /\ req = NoneVal
    /\ loc = NoneVal
    /\ result = NoneVal
    /\ trace = <<>>
    /\ m0 = NoneVal
    /\ terminal = [b \in Backends |-> 0]
    /\ nreq = 0

\* probes and peer writes are followed up to the start of the last call
GateNext ==
    \/ /\ pc = "idle" /\ nreq < MaxGateRequests
       /\ \E b \in Backends : \E o \in ProbeOutcomes(b) : HealthProbe(b, o)
    \/ pc = "idle" /\ nreq < MaxGateRequests /\ PeerSet("Summarize X", "openai")
    \/ nreq < MaxGateRequests /\ RouteBegin("Summarize X", <<>>)
    \/ \E k \in Backends : RouteSelect(k)
    \/ \E o \in GateOutcomes : RouteDispatch(o)
    \/ \E o \in GateOutcomes : RouteFallback(o)
    \/ RouteCacheSet
    \/ RouteReturn

SpecGate == GateInit /\ [][GateNext]_vars

\* C13: the model_used of every returned envelope, unless it is "none", is the
\* key of an adapter in the registry of the router that returned it.
C13_ModelUsedIsRegistered ==
    (pc = "done" /\ IsEnvelope(result) /\ result["model_used"] # "none")
        => result["model_used"] \in adapters

\* the classifier's choice of the call in progress
Classified == SelectSeq(trace, LAMBDA e : e.ev = "classify")

\* the registered backends of the fallback order of k that are not unhealthy
HealthyAlternatives(k) ==
    SelectSeq(PolicyOrder(k), LAMBDA a : model_health[a] # "unhealthy")

\* the call in progress chose an unhealthy backend while its fallback order
\* holds a registered backend that is not unhealthy
HealthGateCase ==
    /\ pc \in {"dispatch", "done"}
    /\ Len(Classified) = 1
    /\ model_health[Classified[1].model] = "unhealthy"
    /\ HealthyAlternatives(Classified[1].model) # <<>>

\* C14: when the chosen backend is unhealthy and its fallback order holds a
\* registered backend that is not unhealthy, the call is dispatched to the
\* first such backend, with classification.health_fallback = TRUE and
\* classification.original_model = the backend chosen at first.
C14_HealthGateSubstitutes ==
    HealthGateCase
        => /\ loc # NoneVal
           /\ Calls("primary") =
                <<Ev("call", HealthyAlternatives(Classified[1].model)[1], "primary")>>
           /\ DGet(loc.classification_info, "health_fallback", FALSE) = TRUE
           /\ DGet(loc.classification_info, "original_model", "") = Classified[1].model

\* the call in progress chose a backend that has no adapter
AvailabilityGateCase ==
    /\ pc \in {"dispatch", "done"}
    /\ Len(Classified) = 1
    /\ Classified[1].model \notin adapters

\* the call ended with the no-adapter envelope, no adapter called and the
\* metrics as they were
NoAdapterEnding ==
    /\ pc = "done"
    /\ IsEnvelope(result)
    /\ result["model_used"] = "none"
    /\ DGet(result, "error", FALSE) = TRUE
    /\ SelectSeq(trace, LAMBDA e : e.ev = "call") = <<>>
    /\ model_metrics = m0

\* C15: when the chosen backend has no adapter the call is dispatched to the
\* first backend of its fallback order that has one, and
\* classification.original_model keeps the chosen key; when no backend has an
\* adapter the call ends with the no-adapter envelope, calls no adapter and
\* leaves the metrics untouched.
C15_AvailabilityGateSubstitutes ==
    AvailabilityGateCase
        => IF PolicyOrder(Classified[1].model) = <<>>
           THEN NoAdapterEnding
           ELSE /\ loc # NoneVal
                /\ Calls("primary") =
                     <<Ev("call", PolicyOrder(Classified[1].model)[1], "primary")>>
                /\ DGet(loc.classification_info, "original_model", "")
                     = Classified[1].model

\* C16: after a health probe of a backend its status is "healthy" exactly
\* when the probe's call succeeded without an error mark; a probe answered
\* by an error envelope never leaves the backend healthy.
C16_HealthyIffProbeSucceeded ==
    probe # NoneVal
        => (model_health[probe.model] = "healthy" <=> probe.kind = "ok")

(***************************************************************************)
(* SpecFault: the Cache object on a store that can also answer a command   *)
(* with an error reply                                                     *)
(***************************************************************************)
\* how the store answers the PING of _ensure_connection when it is reachable:
\* +PONG, or an error reply that redis raises as a ResponseError
PingReplies == {"pong", "error"}

\* _ensure_connection pings only with both clients present, and catches only
\* ConnectionError and TimeoutError; get, set and clear await it outside
\* their try blocks
ensure_connection_raises(c, up, reply) ==
    c.enabled /\ c.client /\ up /\ reply = "error"

FaultGet(prompt, metadata, reply) ==
    IF ensure_connection_raises(cache, storeUp, reply)
    THEN /\ cop' = [op |-> "get", prompt |-> prompt, metadata |-> metadata,
                    raised |-> "ResponseError"]
         /\ UNCHANGED <<cache, store, storeUp, now, kin, kout, classifierVars, routerVars>>
    ELSE CacheGet(prompt, metadata)

FaultSet(prompt, response, metadata, reply) ==
    IF ensure_connection_raises(cache, storeUp, reply)
    THEN /\ cop' = [op |-> "set", prompt |-> prompt, metadata |-> metadata,
                    response |-> response, raised |-> "ResponseError"]
         /\ UNCHANGED <<cache, store, storeUp, now, kin, kout, classifierVars, routerVars>>
    ELSE CacheSet(prompt, response, metadata)

FaultClear(model, reply) ==
    IF ensure_connection_raises(cache, storeUp, reply)
    THEN /\ cop' = [op |-> "clear", model |-> model, raised |-> "ResponseError"]
         /\ UNCHANGED <<cache, store, storeUp, now, kin, kout, classifierVars, routerVars>>
    ELSE CacheClear(model)

FaultEnvs == {MkEnv("openai", "-", "-", "-"), MkEnv("openai", "true", "-", "-")}

FaultNext ==
    \/ \E m \in CacheMetas, r \in PingReplies : FaultGet("Summarize X", m, r)
    \/ \E m \in CacheMetas, e \in FaultEnvs, r \in PingReplies :
            FaultSet("Summarize X", e, m, r)
    \/ \E k \in {"", "openai"}, r \in PingReplies : FaultClear(k, r)
    \/ \E key \in DOMAIN store.entries : Expire(key)
    \/ StoreDown
    \/ StoreUp
    \/ Tick

SpecFault == CacheInit /\ [][FaultNext]_vars

\* C17: no failure of the store makes get, set or clear raise; on an
\* unreachable store get returns None, set returns False and clear returns 0,
\* and the store is left as it was.
C17_StoreFailureNeverRaises ==
    cop.op \in {"get", "set", "clear"}
        => /\ "raised" \notin DOMAIN cop
           /\ (~storeUp /\ cop.op = "get") => cop.result = NoneVal
           /\ (~storeUp /\ cop.op = "set") => (cop.result = FALSE /\ ~cop.changed)
           /\ (~storeUp /\ cop.op = "clear") => cop.result = 0

\* C18: while the cache is disabled, by configuration or after a failed
\* connection, get returns None, set returns False and clear returns 0, and
\* none of them changes the store or the cache object.
C18_DisabledCacheIsInert ==
    [][(~cache.enabled /\ cop'.op \in {"get", "set", "clear"})
        => /\ store' = store
           /\ cache' = cache
           /\ cop'.op = "get" => cop'.result = NoneVal
           /\ cop'.op = "set" => cop'.result = FALSE
           /\ cop'.op = "clear" => cop'.result = 0]_vars

\* a clear on a cache disabled by a failed reconnect, the store back up and
\* still holding an entry
C18_Witness ==
    /\ ~cache.enabled
    /\ cache.connection_errors > 0
    /\ storeUp
    /\ cop.op = "clear"
    /\ store.entries # EmptyDict

\* the cache is enabled by configuration: it is in service, or a failed
\* connection attempt took it out of service
EnabledByConfig == cache.enabled \/ cache.connection_errors > 0

\* C19: a cache enabled by configuration is out of service only after
\* CacheMaxRetries failed connection attempts in a row, and a get or set
\* issued while the store is reachable, at least ReconnectDelay after the
\* last attempt, finds or restores the connection and is served.
C19_ConnectivityRecovers ==
    /\ []((EnabledByConfig /\ ~cache.enabled)
            => cache.connection_errors >= CacheMaxRetries)
    /\ [][(/\ EnabledByConfig
           /\ storeUp
           /\ now - cache.last_connection_attempt >= ReconnectDelay
           /\ cop'.op \in {"get", "set"})
            => (cache'.enabled /\ cache'.client)]_vars

(***************************************************************************)
(* SpecClassifier: PromptClassifier.classify_prompt with its memo          *)
(* (src/classifier.py), next to the same classification without the memo   *)
(***************************************************************************)
ClassifierCacheTtl == 300
MemoPrefixLen == 100
MaxMemoTime == 300

\* A prompt is a sequence of words, each with the number of characters it
\* takes in the string (the separator that follows it included).
Word(w, n) == [w |-> w, n |-> n]

RECURSIVE PromptChars(_)
PromptChars(prompt) ==
    IF prompt = <<>> THEN 0 ELSE prompt[1].n + PromptChars(Tail(prompt))

\* prompt[:k], for a prompt with a word boundary at k or shorter than k
RECURSIVE PromptPrefix(_, _)
PromptPrefix(prompt, k) ==
    IF prompt = <<>> \/ prompt[1].n > k THEN <<>>
    ELSE <<prompt[1]>> \o PromptPrefix(Tail(prompt), k - prompt[1].n)

\* the one-word entries of INTENT_KEYWORDS
IntentKeywords ==
    [local |-> {"hello", "hi", "greetings", "simple", "quick", "calculate", "help",
                "math", "example"},
     openai |-> {"analyze", "summarize", "code", "compare", "debug", "complex",
                 "explain", "review", "generate", "algorithm"},
     anthropic |-> {"legal", "extensive", "thorough", "comprehensive", "ethical",
                    "draft", "essay", "research"}]

ScoreOrder == <<"local", "openai", "anthropic">>

\* _count_keyword_matches
count_keyword_matches(prompt) ==
    [m \in Backends |->
        Cardinality({i \in 1..Len(prompt) : prompt[i].w \in IntentKeywords[m]})]

\* code_pattern: the bare words that mark code
code_presence(prompt) ==
    \E i \in 1..Len(prompt) : prompt[i].w \in {"function", "class", "def"}

\* the words counted by the complexity_terms feature
complexity_terms(prompt) ==
    Cardinality({i \in 1..Len(prompt) : prompt[i].w \in
        {"explain", "analyze", "compare", "contrast", "evaluate", "synthesize",
         "examine", "investigate", "discuss", "elaborate"}})

\* _determine_final_score in hundredths, for prompts under 400 characters
\* with at most one complexity term and without capability words, analysis
\* verbs, math signs or question marks: the keyword base, the boost of local
\* for short simple prompts, its penalty for code, the boost of openai for
\* code, and the floor of 0.1
determine_final_score(keyword_scores, prompt) ==
    LET short == PromptChars(prompt) < 400 /\ complexity_terms(prompt) <= 1
        code == code_presence(prompt)
        local1 == 50 * keyword_scores["local"] + (IF short THEN 200 ELSE 0)
        local2 == IF code THEN (local1 * 3) \div 10 ELSE local1
        openai1 == 50 * keyword_scores["openai"] + (IF code THEN 300 ELSE 0)
        anthropic1 == 50 * keyword_scores["anthropic"]
        floor(v) == IF v < 10 THEN 10 ELSE v
    IN  [local |-> floor(local2), openai |-> floor(openai1),
         anthropic |-> floor(anthropic1)]

\* _apply_metadata_adjustments for metadata without priority, max_tokens and
\* required_capabilities
apply_metadata_adjustments(scores, metadata) ==
    IF MHas(metadata, "model") /\ MGet(metadata, "model", "") \in Backends
    THEN [m \in Backends |-> IF m = MGet(metadata, "model", "") THEN 1000 ELSE 10]
    ELSE scores

\* max(adjusted_scores, key=adjusted_scores.get): the first of the largest
select_max(scores) ==
    LET best == {i \in 1..3 : \A j \in 1..3 : scores[ScoreOrder[j]] <= scores[ScoreOrder[i]]}
    IN  ScoreOrder[CHOOSE i \in best : \A j \in best : i <= j]

\* round(confidence, 3) in thousandths
confidence_of(scores, selected_model) ==
    LET total == scores["local"] + scores["openai"] + scores["anthropic"]
    IN  (2000 * scores[selected_model] + total) \div (2 * total)

\* "Default fallback if all scores are 0"
DefaultBackend == "openai"

\* classify_prompt from the model override on: [model, info]
classify_uncached(prompt, metadata) ==
    LET requested_model == MGet(metadata, "model", "")
        keyword_scores == count_keyword_matches(prompt)
        model_scores == determine_final_score(keyword_scores, prompt)
        adjusted_scores == apply_metadata_adjustments(model_scores, metadata)
        selected_model == select_max(adjusted_scores)
    IN  IF MHas(metadata, "model") /\ requested_model \in Backends
        THEN [model |-> requested_model,
              info |-> [selected_model |-> requested_model,
                        source |-> "metadata_override", confidence |-> 1000,
                        reasoning |-> [override |-> TRUE]]]
        ELSE IF \A m \in Backends : adjusted_scores[m] = 0
        THEN [model |-> DefaultBackend,
              info |-> [selected_model |-> DefaultBackend, confidence |-> 500,
                        source |-> "rule_based",
                        reasoning |-> [keyword_matches |-> keyword_scores,
                                       model_scores |-> model_scores,
                                       adjusted_scores |-> adjusted_scores]]]
        ELSE [model |-> selected_model,
              info |-> [selected_model |-> selected_model,
                        confidence |-> confidence_of(adjusted_scores, selected_model),
                        source |-> "rule_based",
                        reasoning |-> [keyword_matches |-> keyword_scores,
                                       model_scores |-> model_scores,
                                       adjusted_scores |-> adjusted_scores]]]

MemoFields == <<"max_tokens", "model", "priority", "required_capabilities">>

\* _generate_cache_key: the payload of the hash
generate_cache_key(prompt, metadata) ==
    [prefix |-> PromptPrefix(prompt, MemoPrefixLen),
     relevant |-> SelectSeq([i \in 1..4 |-> <<MemoFields[i], MGet(metadata, MemoFields[i], NoneVal)>>],
                            LAMBDA kv : MHas(metadata, kv[1]))]

\* classify_prompt: [memo, model, info, hit]. The memo holds the dict it
\* handed out, so the source written on a hit is written into the memo.
classify_prompt(memo, t, prompt, metadata) ==
    LET cache_key == generate_cache_key(prompt, metadata)
        present == DHas(memo, cache_key)
        fresh == present /\ t - memo[cache_key].timestamp < ClassifierCacheTtl
        hit_info == [memo[cache_key].info EXCEPT !.source = "cache"]
        r == classify_uncached(prompt, metadata)
    IN  IF fresh
        THEN [memo |-> DPut(memo, cache_key,
                            [memo[cache_key] EXCEPT !.info = hit_info]),
              model |-> memo[cache_key].model, info |-> hit_info, hit |-> TRUE]
        ELSE [memo |-> DPut(memo, cache_key,
                            [timestamp |-> t, model |-> r.model, info |-> r.info]),
              model |-> r.model, info |-> r.info, hit |-> FALSE]

PShort == <<Word("hello", 6), Word("there", 5)>>
PHundred == <<Word("hello", 6), Word("lorem", 94)>>
PHundredAndCode == PHundred \o <<Word("debug", 6), Word("def", 4), Word("f", 1)>>

ClassifierPrompts == {PShort, PHundred, PHundredAndCode}

ClassifierMetas == {<<>>, <<<<"model", "anthropic">>>>, <<<<"user_id", "u1">>>>}


ClassifierInit ==
    /\ classification_cache = EmptyDict
    /\ cls = NoneVal
    /\ now = 0
    /\ cache = NoneVal /\ store = EmptyStore /\ storeUp = TRUE /\ cop = NoneVal
    /\ KeyIdle
    /\ RouterIdle

Classify(prompt, metadata) ==
    LET r == classify_prompt(classification_cache, now, prompt, metadata)
        u == classify_uncached(prompt, metadata)
    IN  /\ classification_cache' = r.memo
        /\ cls' = [prompt |-> prompt, metadata |-> metadata, hit |-> r.hit,
                   model |-> r.model, info |-> r.info,
                   plain_model |-> u.model, plain_info |-> u.info]
        /\ UNCHANGED <<cacheVars, cop, kin, kout, routerVars>>

\* time passes, by half the memo's time to live
ClassifierTick ==
    /\ now < MaxMemoTime
    /\ now' = now + ClassifierCacheTtl \div 2
    /\ UNCHANGED <<classifierVars, cache, store, storeUp, cop, kin, kout, routerVars>>

ClassifierNext ==
    \/ \E p \in ClassifierPrompts, m \in ClassifierMetas : Classify(p, m)
    \/ ClassifierTick

SpecClassifier == ClassifierInit /\ [][ClassifierNext]_vars

\* C20: every classify call returns, with the memo, the backend and the
\* classification (confidence, source, reasoning) that the same call returns
\* without the memo.
C20_MemoIsOnlyAnOptimisation ==
    cls # NoneVal
        => /\ cls.model = cls.plain_model
           /\ cls.info = cls.plain_info

(***************************************************************************)
(* SpecOverride: classify_prompt called with and without metadata.model    *)
(***************************************************************************)
\* metadata.model with a key that is not in the registry
UnknownModelMeta == <<<<"model", "gpt-5">>>>

\* the empty prompt: no word, no character
PEmpty == <<>>

OverrideMetas == {<<<<"model", "anthropic">>>>, <<<<"model", "local">>>>, UnknownModelMeta}

OverrideNext ==
    \/ \E m \in OverrideMetas : Classify(PShort, m)
    \/ Classify(PEmpty, <<>>)
    \/ ClassifierTick

SpecOverride == ClassifierInit /\ [][OverrideNext]_vars

\* the last classify call named a backend in metadata.model
ModelRequested == cls # NoneVal /\ MHas(cls.metadata, "model")

\* C21: every classify call whose metadata.model names a registered backend k,
\* the first as well as a repeated one, returns k with confidence 1.0 and
\* source = metadata_override; with an unknown key the result is the scoring
\* pipeline's.
C21_ModelOverride ==
    ModelRequested
        => IF MGet(cls.metadata, "model", "") \in Backends
           THEN /\ cls.model = MGet(cls.metadata, "model", "")
                /\ cls.info.confidence = 1000
                /\ cls.info.source = "metadata_override"
           ELSE /\ cls.model = select_max(determine_final_score(count_keyword_matches(cls.prompt), cls.prompt))
                /\ DHas(cls.info.reasoning, "model_scores")

\* the prompt has no keyword hit and every feature extractor yields 0
AllZeroPrompt(prompt) ==
    /\ \A m \in Backends : count_keyword_matches(prompt)[m] = 0
    /\ PromptChars(prompt) = 0
    /\ Len(prompt) = 0
    /\ ~code_presence(prompt)
    /\ complexity_terms(prompt) = 0

\* C22: a prompt without keyword hits and with every feature at 0 is
\* classified to the default backend with confidence 0.5.
C22_AllZeroSelectsDefault ==
    (cls # NoneVal /\ ~MHas(cls.metadata, "model") /\ AllZeroPrompt(cls.prompt))
        => /\ cls.model = DefaultBackend
           /\ cls.info.confidence = 500

(***************************************************************************)
(* SpecSelect: the model selection of route_prompt for one request, with   *)
(* _select_model_by_capabilities (src/router.py)                           *)
(***************************************************************************)
MaxCaps == 2

\* the order of the keys of get_model_registry
RegistryOrder == <<"local", "openai", "anthropic">>

\* "capabilities" of the three descriptors
Capabilities ==
    [local |-> {"basic_chat", "math", "fast_response", "file_creation"},
     openai |-> {"basic_chat", "code_generation", "reasoning", "summarization",
                 "data_analysis", "function_calling", "json_mode",
                 "structured_output", "tool_use", "multilingual",
                 "step_by_step_reasoning"},
     anthropic |-> {"basic_chat", "long_context", "legal_analysis", "reasoning",
                    "creative_writing", "scientific_knowledge", "multilingual",
                    "image_understanding", "structured_output",
                    "step_by_step_reasoning"}]

\* "priority" of the three descriptors (1 is best)
PriorityRank ==
    [local |-> [speed |-> 1, cost |-> 1, quality |-> 3],
     openai |-> [speed |-> 2, cost |-> 2, quality |-> 1],
     anthropic |-> [speed |-> 3, cost |-> 3, quality |-> 1]]

\* the sort key of a candidate: speed, cost, and quality for anything else
priority_key(priority, m) ==
    IF priority = "speed" THEN PriorityRank[m].speed
    ELSE IF priority = "cost" THEN PriorityRank[m].cost
    ELSE PriorityRank[m].quality

\* sorted(candidate_models, key=...)[0]: sorted is stable, so the first of the
\* candidates with the smallest key
sorted_first(candidate_models, priority) ==
    LET best == {i \in 1..Len(candidate_models) :
                    \A j \in 1..Len(candidate_models) :
                        priority_key(priority, candidate_models[i])
                            <= priority_key(priority, candidate_models[j])}
    IN  candidate_models[CHOOSE i \in best : \A j \in best : i <= j]

select_model_by_any_capability(required_capabilities, metadata, adp, classified) ==
    LET required == Range(required_capabilities)
        any == SelectSeq(RegistryOrder,
                   LAMBDA m : m \in adp /\ required \cap Capabilities[m] # {})
    IN  IF required_capabilities = <<>> THEN classified
        ELSE IF any = <<>> THEN classified
        ELSE sorted_first(any, MGet(metadata, "priority", "quality"))

\* _select_model_by_capabilities; classified is what the classifier returns
\* for the prompt and metadata
select_model_by_capabilities(required_capabilities, metadata, adp, classified) ==
    LET required == Range(required_capabilities)
        all == SelectSeq(RegistryOrder,
                   LAMBDA m : m \in adp /\ required \subseteq Capabilities[m])
        any == SelectSeq(RegistryOrder,
                   LAMBDA m : m \in adp /\ required \cap Capabilities[m] # {})
        candidate_models == IF all # <<>> THEN all ELSE any
    IN  IF required_capabilities = <<>> THEN classified
        ELSE IF candidate_models = <<>> THEN classified
        ELSE sorted_first(candidate_models, MGet(metadata, "priority", "quality"))

\* Step 3 of route_prompt: [model_key, selection_method]
select_model(metadata, adp, classified) ==
    LET required_capabilities == MGet(metadata, "required_capabilities", <<>>)
    IN  IF required_capabilities # <<>>
        THEN [model_key |-> select_model_by_capabilities(required_capabilities,
                                metadata, adp, classified),
              selection_method |-> "capability_based"]
        ELSE IF MHas(metadata, "model") /\ MGet(metadata, "model", "") \in adp
        THEN [model_key |-> MGet(metadata, "model", ""),
              selection_method |-> "user_specified"]
        ELSE IF MHas(metadata, "model")
        THEN [model_key |-> classified, selection_method |-> "fallback_classification"]
        ELSE [model_key |-> classified, selection_method |-> "classifier"]

\* the tags a request asks for; no descriptor lists "retrieval_augmented_generation"
SelectTags ==
    {"math", "reasoning", "legal_analysis", "code_generation", "basic_chat",
     "retrieval_augmented_generation"}

SelectRequired == UNION {[1..n -> SelectTags] : n \in 0..MaxCaps}

\* metadata from optional fields; "-" leaves the field out
SelectMeta(required, priority, model) ==
    LET m1 == IF required # <<>> THEN <<<<"required_capabilities", required>>>> ELSE <<>>
        m2 == IF priority # "-" THEN Append(m1, <<"priority", priority>>) ELSE m1
        m3 == IF model # "-" THEN Append(m2, <<"model", model>>) ELSE m2
    IN  m3

SelectInit ==
    /\ \E required \in SelectRequired, priority \in {"-", "speed", "cost", "quality"},
          model \in {"-", "anthropic"}, adp \in SUBSET Backends, classified \in Backends :
            kin = [metadata |-> SelectMeta(required, priority, model),
                   adapters |-> adp, classified |-> classified]
    /\ kout = NoneVal
    /\ ClassifierIdle
    /\ CacheIdle
    /\ RouterIdle

SelectCompute ==
    /\ kout = NoneVal
    /\ kout' = select_model(kin.metadata, kin.adapters, kin.classified)
    /\ UNCHANGED <<kin, classifierVars, cacheVars, cop, routerVars>>

SelectNext == SelectCompute

SpecSelect == SelectInit /\ [][SelectNext]_vars

\* the tags the request of kin asks for
RequiredTags == Range(MGet(kin.metadata, "required_capabilities", <<>>))

\* the backends with an adapter that support all the tags asked for, or, when
\* there is none, those that support at least one
Candidates ==
    LET all == {m \in kin.adapters : RequiredTags \subseteq Capabilities[m]}
        any == {m \in kin.adapters : RequiredTags \cap Capabilities[m] # {}}
    IN  IF all # {} THEN all ELSE any

RegistryPos(m) == CHOOSE i \in 1..3 : RegistryOrder[i] = m

\* C23: with required_capabilities non-empty the backend selected is, among
\* the backends with an adapter that support all the tags (or, when there is
\* none, at least one of them), the one of best rank for metadata.priority
\* (quality when absent), the first in registry order on a tie, whatever
\* metadata.model says; when no backend supports any tag it is the
\* classifier's choice.
C23_CapabilitySelection ==
    (kout # NoneVal /\ RequiredTags # {})
        => /\ kout.selection_method = "capability_based"
           /\ IF Candidates = {} THEN kout.model_key = kin.classified
              ELSE /\ kout.model_key \in Candidates
                   /\ \A m \in Candidates :
                        LET p == MGet(kin.metadata, "priority", "quality")
                            a == priority_key(p, kout.model_key)
                            b == priority_key(p, m)
                        IN  a < b \/ (a = b /\ RegistryPos(kout.model_key) <= RegistryPos(m))

\* a request for one tag that two backends of equal quality rank support,
\* with metadata.model naming the later of the two
C23_Witness ==
    /\ kout # NoneVal
    /\ RequiredTags = {"reasoning"}
    /\ kin.adapters = Backends
    /\ MGet(kin.metadata, "model", "") = "anthropic"
    /\ ~MHas(kin.metadata, "priority")
    /\ kout.model_key = "openai"

(***************************************************************************)
(* Streaming requests: Step 5 of route_prompt and                          *)
(* ModelRouter._handle_streaming_request                                   *)
(***************************************************************************)
MaxStreamRequests == 2

\* "object async_generator can't be used in 'await' expression":
\* ModelAdapter.generate_stream is an async generator function and no adapter
\* overrides it, so awaiting its result raises TypeError
StreamAwaitError == "object async_generator can't be used in 'await' expression"

\* the error envelope _handle_streaming_request ends with
stream_error_response(model_key, request_id) ==
    [model_used |-> model_key,
     response |-> <<"Error initializing stream: ", StreamAwaitError>>,
     error |-> TRUE, request_id |-> request_id,
     latency_ms |-> total_latency, stream |-> FALSE]

\* _handle_streaming_request: the request counted, the await of
\* generate_stream that raises, the failure counted, the read of
\* fallback_config.enabled, the fallback loop over the adapters that declare
\* streaming (each raises the same way), and the error envelope
RouteStream ==
    /\ pc = "stream"
    /\ LET model_key == loc.model_key
           counted == update_metrics(model_metrics, model_key, FALSE, FALSE)
           failed == update_metrics(counted, model_key, FALSE, FALSE)
           fallback_models ==
               SelectSeq(get_fallback_model_order(fallback_config, adapters, model_key),
                         LAMBDA m : m \in adapters /\ m # model_key /\ supports_streaming(m))
           tried == IF fallback_config.is_dict \/ ~fallback_config.enabled THEN <<>>
                    ELSE Take(fallback_models, fallback_config.max_retries)
       IN  /\ model_metrics' = failed
           /\ trace' = Append(trace, Ev("stream", model_key, "TypeError"))
                         \o [i \in 1..Len(tried) |-> Ev("stream", tried[i], "TypeError")]
           /\ result' = IF fallback_config.is_dict THEN AttributeError
                        ELSE stream_error_response(model_key, req.request_id)
           /\ pc' = "done"
    /\ UNCHANGED <<cacheVars, cop, kin, kout, classifierVars, fallback_config, adapters,
                   model_health, probe, req, loc, m0, terminal, nreq>>

StreamMeta == <<<<"stream", TRUE>>>>

\* another process that shares the store caches a unary answer of model_key
\* to the prompt under the request's metadata
PeerSetWith(prompt, model_key, metadata) ==
    /\ storeUp
    /\ LET response == success_response(model_key, [kind |-> "ok", text |-> "answer P"],
                           [selected_model |-> model_key,
                            selection_method |-> "classifier"], "R0")
           r == cache_set(NewCache(TRUE, TRUE, now), store, TRUE, now, prompt,
                          response, metadata)
       IN  /\ r.store # store
           /\ store' = r.store
    /\ cop' = [op |-> "peer"]
    /\ UNCHANGED <<cache, storeUp, now, kin, kout, classifierVars, routerVars>>

StreamMetas == {StreamMeta, <<<<"stream", TRUE>>, <<"model", "anthropic">>>>}

StreamNext ==
    \/ \E m \in StreamMetas : nreq < MaxStreamRequests /\ RouteBegin("Summarize X", m)
    \/ \E k \in Backends : RouteSelect(k)
    \/ RouteStream
    \/ RouteReturn
    \/ pc = "idle" /\ nreq < MaxStreamRequests /\ PeerSetWith("Summarize X", "openai", StreamMeta)
    \/ pc = "idle" /\ nreq < MaxStreamRequests /\ StoreDown
    \/ pc = "idle" /\ nreq < MaxStreamRequests /\ StoreUp

SpecStream == GateInit /\ [][StreamNext]_vars

\* a route call for a request with metadata.stream = true has ended, and the
\* request either went to _handle_streaming_request or, every backend having
\* its adapter, was answered before the selection
StreamRequestEnded ==
    /\ pc = "done" /\ req # NoneVal /\ MGet(req.metadata, "stream", FALSE)
    /\ \/ \E i \in 1..Len(trace) : trace[i].ev = "stream"
       \/ adapters = Backends /\ DGet(result, "from_cache", FALSE)

\* C24: a route call for a request with metadata.stream = true that goes to a
\* backend declaring streaming performs no cache read and no cache write and
\* is never answered with a cached envelope
C24_StreamBypassesCache ==
    StreamRequestEnded =>
        /\ \A i \in 1..Len(trace) : trace[i].ev \notin {"cache_get", "cache_set"}
        /\ ~DGet(result, "from_cache", FALSE)

(***************************************************************************)
(* SpecWrap: ModelAdapter.measure_stream_latency around an async generator *)
(* that yields text chunks and then either a final chunk or an exception   *)
(***************************************************************************)
MaxChunks == 3

\* chunk texts, as words with their number of characters
ChunkTexts == {Word("alpha", 60), Word("beta", 40)}

\* what the wrapped generator does when it is resumed: it yields a chunk,
\* or it raises
InnerChunk(text, done) == [chunk |-> text, done |-> done]
InnerRaise == [raise |-> "upstream closed"]

\* the wrapped generator: up to MaxChunks chunks that are not final, then a
\* final chunk or an exception
InnerStreams ==
    {body \o <<last>> :
        body \in UNION {[1..n -> {InnerChunk(t, FALSE) : t \in ChunkTexts}] : n \in 0..MaxChunks},
        last \in {InnerChunk(Word("omega", 5), TRUE), InnerRaise}}

\* combined_response[:100], a chunk text that starts beyond the limit dropped
\* whole
partial_note(response_chunks) ==
    <<"Note: Stream was interrupted. Partial response: ", PromptPrefix(response_chunks, 100)>>

WrapInit ==
    /\ \E inner \in InnerStreams : kin = [inner |-> inner]
    /\ kout = [chunks |-> <<>>, response_chunks |-> <<>>, chunk_count |-> 0,
               at |-> 1, state |-> "running", start_time |-> 0]
    /\ ClassifierIdle
    /\ cache = NoneVal /\ store = EmptyStore /\ storeUp = TRUE /\ now = 0
    /\ cop = NoneVal
    /\ RouterIdle

\* "async for chunk in func(...)" when the generator yields: the chunk gets
\* its latency fields, its text is remembered, and it is yielded
WrapForward(d) ==
    /\ kout.state = "running"
    /\ kout.at <= Len(kin.inner)
    /\ "chunk" \in DOMAIN kin.inner[kout.at]
    /\ now' = now + d
    /\ LET chunk == kin.inner[kout.at]
           chunk_count == kout.chunk_count + 1
           current_time == now'
           out == [chunk |-> chunk.chunk, done |-> chunk.done,
                   latency_ms |-> (current_time - kout.start_time) * 1000,
                   time_to_first_chunk_ms |->
                       IF chunk_count = 1
                       THEN [ms |-> (current_time - kout.start_time) * 1000]
                       ELSE NoneVal]
       IN  kout' = [kout EXCEPT !.chunks = Append(@, out),
                                !.response_chunks = Append(@, chunk.chunk),
                                !.chunk_count = chunk_count,
                                !.at = @ + 1]
    /\ UNCHANGED <<kin, classifierVars, cache, store, storeUp, cop, routerVars>>

\* "except Exception as e": the error chunk is yielded
WrapError ==
    /\ kout.state = "running"
    /\ kout.at <= Len(kin.inner)
    /\ "raise" \in DOMAIN kin.inner[kout.at]
    /\ LET e == kin.inner[kout.at].raise
           error_chunk == [chunk |-> <<"Error: ", e>>, error |-> TRUE,
                           error_details |-> e,
                           latency_ms |-> (now - kout.start_time) * 1000,
                           done |-> TRUE]
       IN  kout' = [kout EXCEPT !.chunks = Append(@, error_chunk),
                                !.at = @ + 1,
                                !.state = IF kout.response_chunks # <<>>
                                          THEN "raised" ELSE "returned"]
    /\ UNCHANGED <<kin, classifierVars, cacheVars, cop, routerVars>>

\* "if response_chunks:" after the error chunk: the note with the partial
\* response is yielded as one more chunk
WrapPartial ==
    /\ kout.state = "raised"
    /\ LET error_chunk == [chunk |-> partial_note(kout.response_chunks),
                           error |-> TRUE, partial_response |-> TRUE,
                           latency_ms |-> (now - kout.start_time) * 1000,
                           done |-> TRUE]
       IN  kout' = [kout EXCEPT !.chunks = Append(@, error_chunk),
                                !.state = "returned"]
    /\ UNCHANGED <<kin, classifierVars, cacheVars, cop, routerVars>>

\* the wrapped generator is exhausted and the wrapper returns
WrapReturn ==
    /\ kout.state = "running"
    /\ kout.at > Len(kin.inner)
    /\ kout' = [kout EXCEPT !.state = "returned"]
    /\ UNCHANGED <<kin, classifierVars, cacheVars, cop, routerVars>>

WrapNext ==
    \/ \E d \in {0, 1} : WrapForward(d)
    \/ WrapError
    \/ WrapPartial
    \/ WrapReturn

SpecWrap == WrapInit /\ [][WrapNext]_vars

IsDone(chunk) == DGet(chunk, "done", FALSE)

\* the wrapped generator raised after it had yielded text
MidStreamFailure ==
    /\ kout # NoneVal /\ kout.state = "returned"
    /\ "raise" \in DOMAIN kin.inner[Len(kin.inner)]
    /\ kout.response_chunks # <<>>

\* C25: no chunk follows a chunk with done = true; a sequence that has ended
\* ends with its only done = true chunk; after a failure in mid-stream that
\* chunk is the error chunk and carries the summary of the partial text
C25_StreamEndsWithOneFinalChunk ==
    LET chunks == kout.chunks
    IN  /\ \A i \in 1..Len(chunks) : IsDone(chunks[i]) => i = Len(chunks)
        /\ kout.state = "returned" => chunks # <<>> /\ IsDone(chunks[Len(chunks)])
        /\ MidStreamFailure =>
              /\ DGet(chunks[Len(chunks)], "error", FALSE)
              /\ DGet(chunks[Len(chunks)], "partial_response", FALSE)

(***************************************************************************)
(* SpecDeadline: route_prompt with the time its adapter calls take.        *)
(* asyncio.wait_for cuts a call off when it has waited for the deadline;   *)
(* a call that returns or raises does so before that.                      *)
(***************************************************************************)
MaxDeadlineRequests == 1

\* settings.api.default_request_timeout, in seconds
DefaultRequestTimeout == 60

\* timeout = metadata.get("timeout", self.settings.api.default_request_timeout)
Deadline == MGet(req.metadata, "timeout", DefaultRequestTimeout)

\* the seconds the adapter call in progress has been awaited
Waited == DGet(loc, "waited", 0)

\* a second passes while route_prompt awaits an adapter call
Elapse ==
    /\ pc \in {"dispatch", "fallback"}
    /\ Waited < Deadline
    /\ now' = now + 1
    /\ loc' = DPut(loc, "waited", Waited + 1)
    /\ UNCHANGED <<kin, kout, classifierVars, cache, store, storeUp, cop, fallback_config,
                   adapters, model_health, probe, model_metrics, pc, req, result,
                   trace, m0, terminal, nreq>>

\* asyncio.wait_for raises TimeoutError exactly when the deadline has passed
InTime(outcome) == (outcome.kind = "timeout") <=> (Waited = Deadline)

DeadlineMetas == {<<<<"timeout", 1>>>>, <<<<"timeout", 2>>>>}

DeadlineOutcomes ==
    {[kind |-> "ok", text |-> "answer A"],
     [kind |-> "timeout", text |-> ""],
     [kind |-> "raise", text |-> "Connection refused"]}

DeadlineNext ==
    \/ \E m \in DeadlineMetas :
            nreq < MaxDeadlineRequests /\ RouteBegin("Summarize X", m)
    \/ \E k \in Backends : RouteSelect(k)
    \/ Elapse
    \/ \E o \in DeadlineOutcomes : pc = "dispatch" /\ InTime(o) /\ RouteDispatch(o)
    \/ \E o \in DeadlineOutcomes : pc = "fallback" /\ InTime(o) /\ RouteFallback(o)
    \/ RouteCacheSet
    \/ RouteReturn

SpecDeadline == GateInit /\ [][DeadlineNext]_vars

\* the tolerance, in milliseconds, for the work of route_prompt around the
\* adapter call
Epsilon == 500

\* the call has ended with an envelope and its dispatch to the primary was
\* cut off by the deadline
DispatchTimedOut ==
    /\ pc = "done" /\ IsEnvelope(result)
    /\ Len(Rets) > 0 /\ Rets[1].out = "timeout"

MaxCloseRequests == 1

\* self.adapters.items(): the adapters in the order of their construction
AdapterOrder == SelectSeq(RegistryOrder, LAMBDA m : m \in adapters)

CloseInit ==
    /\ ClassifierIdle
    /\ now = 0
    /\ storeUp = TRUE
    /\ \E setup \in GateSetups :
            /\ fallback_config = setup[1]
            /\ adapters = setup[2]
    /\ cache = NewCache(TRUE, storeUp, 0)
    /\ store = EmptyStore
    /\ cop = [op |-> "init"]
    /\ kin = NoneVal
    /\ \E started \in BOOLEAN :
            kout = [health_check_task |-> IF started THEN "running" ELSE "none",
                    close |-> "not called", called |-> {}, raised |-> {},
                    cache_closed |-> FALSE]
    /\ model_health = [b \in Backends |-> IF b \in adapters THEN "unknown" ELSE "error"]
    /\ probe = NoneVal
    /\ model_metrics = [b \in adapters |-> ZeroMetrics]
    /\ pc = "idle"
    /\ req = NoneVal
    /\ loc = NoneVal
    /\ result = NoneVal
    /\ trace = <<>>
    /\ m0 = NoneVal
    /\ terminal = [b \in Backends |-> 0]
    /\ nreq = 0

\* a turn of _health_check_loop: the task, unless it was cancelled, probes a
\* backend
LoopProbe(model_key, outcome) ==
    /\ kout.health_check_task = "running"
    /\ HealthProbe(model_key, outcome)

\* close() up to "await self.health_check_task": the task is cancelled
CloseBegin ==
    /\ kout.close = "not called"
    /\ kout' = [kout EXCEPT !.close = "awaiting task",
                            !.health_check_task =
                                IF @ = "running" THEN "cancelled" ELSE @]
    /\ UNCHANGED <<kin, classifierVars, cacheVars, cop, routerVars>>

\* close() from the end of the task to its return: close() of every adapter,
\* an exception of one of them logged, then close() of the cache.
\* raising is the set of adapters whose close() raises.
CloseFinish(raising) ==
    /\ kout.close = "awaiting task"
    /\ raising \subseteq adapters
    /\ kout' = [kout EXCEPT !.close = "returned",
                            !.called = Range(AdapterOrder),
                            !.raised = raising,
                            !.cache_closed = TRUE]
    /\ UNCHANGED <<kin, classifierVars, cacheVars, cop, routerVars>>

CloseNext ==
    \/ nreq < MaxCloseRequests /\ kout.close = "not called"
          /\ RouteBegin("Summarize X", <<>>)
    \/ \E k \in Backends : RouteSelect(k)
    \/ \E o \in GateOutcomes : RouteDispatch(o)
    \/ \E o \in GateOutcomes : RouteFallback(o)
    \/ RouteCacheSet
    \/ RouteReturn
    \/ \E b \in Backends : \E o \in ProbeOutcomes(b) :
            pc = "idle" /\ nreq < MaxCloseRequests /\ LoopProbe(b, o)
    \/ CloseBegin
    \/ \E raising \in {{}} \cup {{m} : m \in Backends} : CloseFinish(raising)

SpecClose == CloseInit /\ [][CloseNext]_vars

\* a route_prompt call awaits generate_response of the adapter of model_key
AwaitsAdapter(model_key) ==
    \/ pc = "dispatch" /\ loc.model_key = model_key
    \/ pc = "fallback" /\ loc.fallback_model = model_key

\* a route_prompt call is about to write its response to the cache
AwaitsCache == pc = "cache_set"

\* C27: once close() has returned the health-check task is not running, so
\* that no probe starts; close() was called on every adapter, whether or not
\* the close() of another raised, and on the cache; and no adapter and no
\* cache client is closed while a route call is pending
C27_CloseAwaitsInFlight ==
    /\ kout.close = "returned" =>
          /\ kout.health_check_task # "running"
          /\ kout.called = adapters
          /\ kout.cache_closed
    /\ \A m \in kout.called : ~AwaitsAdapter(m)
    /\ kout.cache_closed => ~AwaitsCache

(***************************************************************************)
(* Requests that opt out of the cache (Spec)                               *)
(***************************************************************************)
\* the call in progress has metadata.use_cache = false
NoCacheRequested ==
    /\ req # NoneVal
    /\ MHas(req.metadata, "use_cache")
    /\ ~MGet(req.metadata, "use_cache", TRUE)

\* C28: a route call with metadata.use_cache = false performs no cache read
\* and no cache write on any path, leaves the store and the cache object as
\* they were, and its response is never served from the cache
C28_NoCacheWhenOptedOut ==
    /\ [](NoCacheRequested =>
            /\ \A i \in 1..Len(trace) : trace[i].ev \notin {"cache_get", "cache_set"}
            /\ pc # "cache_set"
            /\ ~DGet(result, "from_cache", FALSE))
    /\ [][NoCacheRequested' => store' = store /\ cache' = cache]_vars

\* a call with use_cache = false has ended with the answer of a fallback
\* backend while the store holds an entry under the request's fingerprint
C28_Witness ==
    /\ NoCacheRequested
    /\ pc = "done"
    /\ DGet(result, "fallback", FALSE)
    /\ generate_key(req.prompt, req.metadata) \in DOMAIN store.entries

(***************************************************************************)
(* Selective invalidation: Cache.clear(model) (SpecCache)                  *)
(***************************************************************************)
\* response_to_cache.get("model_used") of a stored entry
StoredModel(st, key) == DGet(JsonLoads(st.entries[key]), "model_used", "")

\* the step is a clear(model = k) made with the store connected
ClearStep(k) ==
    /\ cop'.op = "clear" /\ cop'.model = k
    /\ ensure_connection(cache, storeUp, now).ok

\* after clear(k) no entry written by k is left
ClearRemovesAllOf(k) ==
    /\ \A key \in DOMAIN store'.entries : StoredModel(store', key) # k
    /\ k \notin DOMAIN store'.sets

\* clear(k) leaves every entry whose stored envelope is of another backend
ClearKeepsOthers(k) ==
    \A key \in DOMAIN store.entries :
        StoredModel(store, key) \in Backends \ {k} =>
            /\ key \in DOMAIN store'.entries
            /\ store'.entries[key] = store.entries[key]

\* C29: after clear(backend = k) no entry whose stored envelope has
\* model_used = k is retrievable and the index set of k is gone, while every
\* entry whose stored envelope has another model_used is unchanged, also
\* when its fingerprint was written by k before
C29_ClearIsSelective ==
    [][\A k \in {"openai", "anthropic"} :
            ClearStep(k) => ClearRemovesAllOf(k) /\ ClearKeepsOthers(k)]_vars

(***************************************************************************)
(* SpecTokens: the request parameters generate_response of an adapter      *)
(* sends upstream, for one request                                         *)
(***************************************************************************)
MaxExcess == 1

\* "max_tokens" of the registry entries
DescriptorMaxTokens == [local |-> 4096, openai |-> 128000, anthropic |-> 200000]

\* self.max_tokens = config.get("max_tokens", 4096) of the adapters, from
\* settings.lmstudio / settings.openai / settings.anthropic
AdapterMaxTokens == [local |-> 4096, openai |-> 4096, anthropic |-> 4096]

\* self.temperature, in tenths
AdapterTemperature == 7

\* max_tokens = metadata.get("max_tokens", self.max_tokens) and
\* temperature = metadata.get("temperature", self.temperature), as they go
\* into the upstream request
upstream_parameters(model_key, metadata) ==
    [max_tokens |-> MGet(metadata, "max_tokens", AdapterMaxTokens[model_key]),
     temperature |-> MGet(metadata, "temperature", AdapterTemperature)]

\* max_tokens of a request: at least 1, up to MaxExcess above a backend's
\* maximum
RequestedTokens ==
    {1} \cup UNION {DescriptorMaxTokens[b]..(DescriptorMaxTokens[b] + MaxExcess) : b \in Backends}

TokensMeta(max_tokens, temperature) ==
    (IF max_tokens = 0 THEN <<>> ELSE <<<<"max_tokens", max_tokens>>>>)
    \o (IF temperature = -1 THEN <<>> ELSE <<<<"temperature", temperature>>>>)

TokensInit ==
    /\ \E model_key \in Backends, max_tokens \in {0} \cup RequestedTokens,
          temperature \in {-1, 0, 7, 10} :
            kin = [model_key |-> model_key,
                   metadata |-> TokensMeta(max_tokens, temperature)]
    /\ kout = NoneVal
    /\ ClassifierIdle
    /\ CacheIdle
    /\ RouterIdle

TokensCompute ==
    /\ kout = NoneVal
    /\ kout' = upstream_parameters(kin.model_key, kin.metadata)
    /\ UNCHANGED <<kin, classifierVars, cacheVars, cop, routerVars>>

TokensNext == TokensCompute

SpecTokens == TokensInit /\ [][TokensNext]_vars

\* C30: the max_tokens an adapter sends upstream never exceeds the maximum
\* output tokens of its backend: a larger request is clamped to the maximum,
\* a request at or below it goes through, and without a request the
\* adapter's default is sent
C30_MaxTokensClamped ==
    kout # NoneVal =>
        LET limit == DescriptorMaxTokens[kin.model_key]
            requested == MGet(kin.metadata, "max_tokens", 0)
        IN  /\ kout.max_tokens <= limit
            /\ requested > limit => kout.max_tokens = limit
            /\ (requested > 0 /\ requested <= limit) => kout.max_tokens = requested
            /\ requested = 0 => kout.max_tokens = AdapterMaxTokens[kin.model_key]

(***************************************************************************)
(* SpecWalk: the walk of _handle_fallback with the time its calls take,    *)
(* for a max_retries below and at the number of other backends             *)
(***************************************************************************)
\* (fallback_config, adapters) at construction
WalkSetups ==
    {<<FallbackConfig(FALSE, TRUE, 1, TRUE, TRUE, TRUE), Backends>>,
     <<FallbackConfig(FALSE, TRUE, 2, TRUE, TRUE, TRUE), Backends>>,
     <<FallbackConfig(FALSE, TRUE, 2, TRUE, TRUE, TRUE), {"local", "anthropic"}>>,
     <<FallbackConfig(FALSE, FALSE, 2, TRUE, TRUE, TRUE), Backends>>,
     <<FallbackConfig(TRUE, TRUE, 2, TRUE, TRUE, TRUE), Backends>>,
     <<[FallbackConfig(FALSE, TRUE, 2, TRUE, TRUE, TRUE)
            EXCEPT !.fallback_order = SelfListedOrder], Backends>>}

WalkInit ==
    /\ ClassifierIdle
    /\ now = 0
    /\ storeUp = TRUE
    /\ \E setup \in WalkSetups :
            /\ fallback_config = setup[1]
            /\ adapters = setup[2]
    /\ cache = NewCache(TRUE, storeUp, 0)
    /\ store = EmptyStore
    /\ cop = [op |-> "init"]
    /\ KeyIdle
    /\ model_health = [b \in Backends |-> IF b \in adapters THEN "unknown" ELSE "error"]
    /\ probe = NoneVal
    /\ model_metrics = [b \in adapters |-> ZeroMetrics]
    /\ pc = "idle"
    /\ req = NoneVal
    /\ loc = NoneVal
    /\ result = NoneVal
    /\ trace = <<>>
    /\ m0 = NoneVal
    /\ terminal = [b \in Backends |-> 0]
    /\ nreq = 0

SpecWalk == WalkInit /\ [][DeadlineNext]_vars

\* the positions of the trace at which an adapter call starts
CallAt == {i \in 1..Len(trace) : trace[i].ev = "call"}

\* the positions of the trace at which an adapter call ends
RetAt == {i \in 1..Len(trace) : trace[i].ev = "ret"}

\* the position of backend m in the order configured for the primary
OrderPos(primary_model, m) ==
    LET order == fallback_config.fallback_order[primary_model]
    IN  CHOOSE i \in 1..Len(order) : order[i] = m

CurrentAttempt == terminal["local"] + terminal["openai"] + terminal["anthropic"] + 1

CancelInit ==
    /\ ClassifierIdle
    /\ now = 0
    /\ storeUp = TRUE
    /\ \E setup \in WalkSetups :
            /\ fallback_config = setup[1]
            /\ adapters = setup[2]
    /\ cache = NewCache(TRUE, storeUp, 0)
    /\ store = EmptyStore
    /\ cop = [op |-> "init"]
    /\ kin = NoneVal
    /\ kout = [cancel_requested |-> {}, finished |-> {}]
    /\ model_health = [b \in Backends |-> IF b \in adapters THEN "unknown" ELSE "error"]
    /\ probe = NoneVal
    /\ model_metrics = [b \in adapters |-> ZeroMetrics]
    /\ pc = "idle"
    /\ req = NoneVal
    /\ loc = NoneVal
    /\ result = NoneVal
    /\ trace = <<>>
    /\ m0 = NoneVal
    /\ terminal = [b \in Backends |-> 0]
    /\ nreq = 0

\* wait_for at the deadline: response_task.cancel()
DeadlineExpires ==
    /\ pc \in {"dispatch", "fallback"}
    /\ Waited = Deadline
    /\ CurrentAttempt \notin kout.cancel_requested
    /\ kout' = [kout EXCEPT !.cancel_requested = @ \cup {CurrentAttempt}]
    /\ UNCHANGED <<kin, classifierVars, cacheVars, cop, routerVars>>

\* CancelledError is raised at the await of the adapter's upstream call; it is
\* not an Exception, so neither the adapter's handlers nor measure_latency
\* catch it, and the task ends
TaskCancelled(n) ==
    /\ n \in kout.cancel_requested \ kout.finished
    /\ kout' = [kout EXCEPT !.finished = @ \cup {n}]
    /\ UNCHANGED <<kin, classifierVars, cacheVars, cop, routerVars>>

\* a wait that raises TimeoutError as soon as the cancellation is requested
wait_for_raises_at_once(tasks, n) == n \in tasks.cancel_requested

\* asyncio.wait_for raises TimeoutError when the task it cancelled has ended
wait_for_raises(tasks, n) == n \in tasks.finished

\* how the await of wait_for can end for the call in progress
AwaitEnds(outcome) ==
    IF outcome.kind = "timeout"
    THEN wait_for_raises(kout, CurrentAttempt)
    ELSE Waited < Deadline /\ CurrentAttempt \notin kout.cancel_requested

CancelNext ==
    \/ \E m \in DeadlineMetas :
            nreq < MaxDeadlineRequests /\ RouteBegin("Summarize X", m)
    \/ \E k \in Backends : RouteSelect(k)
    \/ Elapse
    \/ \E o \in DeadlineOutcomes : pc = "dispatch" /\ AwaitEnds(o) /\ RouteDispatch(o)
    \/ \E o \in DeadlineOutcomes : pc = "fallback" /\ AwaitEnds(o) /\ RouteFallback(o)
    \/ RouteCacheSet
    \/ RouteReturn
    \/ DeadlineExpires
    \/ \E n \in kout.cancel_requested : TaskCancelled(n)

SpecCancel == CancelInit /\ [][CancelNext]_vars

\* the adapter calls that were started and have not ended
Running ==
    (IF pc \in {"dispatch", "fallback"} /\ CurrentAttempt \notin kout.finished
     THEN {CurrentAttempt} ELSE {})
    \cup (kout.cancel_requested \ kout.finished)

\* C32: a request never has more than one adapter call in flight: the call
\* cut off by the deadline has ended before route goes on to a fallback
\* attempt or to its return, and no adapter call is running once the route
\* call has produced its outcome
C32_TimedOutCallIsCancelled ==
    /\ Cardinality(Running) <= 1
    /\ pc \in {"idle", "done", "cache_set"} => Running = {}

\* a fallback call is in flight after the primary was cut off by the deadline
\* and its task has ended
C32_Witness ==
    /\ pc = "fallback"
    /\ Len(Rets) > 0 /\ Rets[1].out = "timeout"
    /\ kout.finished # {}
    /\ Running = {CurrentAttempt}

(***************************************************************************)
(* SpecLoop: _health_check_loop and _check_models_health next to a         *)
(* route_prompt call. model_health holds the "status" of each backend;     *)
(* kout holds its "next_check_time", the time of its last probe, and the   *)
(* position of the loop.                                                   *)
(***************************************************************************)
MaxLoopTime == 620
MaxLoopRequests == 1

\* "health_check_interval" of the registry entries, in seconds
HealthCheckInterval == [local |-> 600, openai |-> 300, anthropic |-> 300]

\* time.time() + 60 after an exception, min(health_check_interval, 60) after
\* a failed ping
UnhealthyRecheck == 60

\* await asyncio.sleep(10)
LoopSleepSeconds == 10

Min(a, b) == IF a < b THEN a ELSE b

\* a probe that leaves the next check at the time of the probe
next_check_time_unmoved(model_key, outcome, t) == t

\* "next_check_time" as _check_models_health stores it after a probe at t
next_check_time(model_key, outcome, t) ==
    IF HasCheckHealth(model_key)
    THEN t + HealthCheckInterval[model_key]
    ELSE IF outcome.kind = "raise"
    THEN t + Min(HealthCheckInterval[model_key], UnhealthyRecheck)
    ELSE t + HealthCheckInterval[model_key]

LoopInit ==
    /\ ClassifierIdle
    /\ now = 0
    /\ storeUp = TRUE
    /\ fallback_config = FallbackConfig(FALSE, TRUE, 1, TRUE, TRUE, TRUE)
    /\ adapters = Backends
    /\ cache = NewCache(TRUE, storeUp, 0)
    /\ store = EmptyStore
    /\ cop = [op |-> "init"]
    /\ kin = NoneVal
    /\ kout = [next_check_time |->
                   [b \in Backends |-> IF b \in adapters THEN HealthCheckInterval[b] ELSE 0],
               last_checked |-> [b \in Backends |-> -1],
               loop |-> "woken", models_to_check |-> <<>>]
    /\ model_health = [b \in Backends |-> IF b \in adapters THEN "unknown" ELSE "error"]
    /\ probe = NoneVal
    /\ model_metrics = [b \in adapters |-> ZeroMetrics]
    /\ pc = "idle"
    /\ req = NoneVal
    /\ loc = NoneVal
    /\ result = NoneVal
    /\ trace = <<>>
    /\ m0 = NoneVal
    /\ terminal = [b \in Backends |-> 0]
    /\ nreq = 0

\* the backend's next check is due
Due(b) == now >= kout.next_check_time[b]

\* the head of _health_check_loop: the backends of model_health whose
\* next_check_time has passed are collected
LoopCollect ==
    /\ kout.loop = "woken"
    /\ LET models_to_check == SelectSeq(RegistryOrder, LAMBDA b : Due(b))
       IN  kout' = [kout EXCEPT !.models_to_check = models_to_check,
                                !.loop = IF models_to_check = <<>>
                                         THEN "sleeping" ELSE "checking"]
    /\ UNCHANGED <<kin, classifierVars, cacheVars, cop, routerVars>>

\* one turn of the loop of _check_models_health: a backend without an
\* adapter is passed over; the others are probed and their status and next
\* check stored
LoopCheck(outcome) ==
    /\ kout.loop = "checking"
    /\ LET model_key == kout.models_to_check[1]
           rest == Tail(kout.models_to_check)
           loop == IF rest = <<>> THEN "sleeping" ELSE "checking"
       IN  IF model_key \notin adapters
           THEN /\ outcome = [kind |-> "ok", text |-> "OK"]
                /\ kout' = [kout EXCEPT !.models_to_check = rest, !.loop = loop]
                /\ UNCHANGED <<model_health, probe>>
           ELSE /\ outcome \in ProbeOutcomes(model_key)
                /\ model_health' = [model_health EXCEPT ![model_key] =
                                        probe_status(model_key, outcome)]
                /\ probe' = [model |-> model_key, kind |-> outcome.kind]
                /\ kout' = [kout EXCEPT
                              !.models_to_check = rest, !.loop = loop,
                              !.last_checked[model_key] = now,
                              !.next_check_time[model_key] =
                                  next_check_time(model_key, outcome, now)]
    /\ UNCHANGED <<kin, classifierVars, cacheVars, cop, fallback_config, adapters,
                   model_metrics, pc, req, loc, result, trace, m0, terminal, nreq>>

\* the earliest wake-up of the loop, LoopSleepSeconds or more from now, at
\* which a backend with an adapter is due
NextWake ==
    LET soonest == CHOOSE t \in {kout.next_check_time[b] : b \in adapters} :
                       \A b \in adapters : t <= kout.next_check_time[b]
    IN  IF soonest > now + LoopSleepSeconds THEN soonest ELSE now + LoopSleepSeconds

\* await asyncio.sleep(10), repeated through the turns of the loop in which
\* no backend with an adapter is due
LoopSleep ==
    /\ kout.loop = "sleeping"
    /\ NextWake <= MaxLoopTime
    /\ now' = NextWake
    /\ kout' = [kout EXCEPT !.loop = "woken"]
    /\ UNCHANGED <<kin, classifierVars, cache, store, storeUp, cop, routerVars>>

LoopStep ==
    \/ LoopCollect
    \/ \E b \in Backends : \E o \in ProbeOutcomes(b) : LoopCheck(o)
    \/ LoopSleep

LoopNext ==
    \/ LoopStep
    \/ nreq < MaxLoopRequests /\ RouteBegin("Summarize X", <<<<"use_cache", FALSE>>>>)
    \/ \E k \in Backends : RouteSelect(k)
    \/ \E o \in GateOutcomes : RouteDispatch(o)
    \/ \E o \in GateOutcomes : RouteFallback(o)
    \/ RouteReturn

SpecLoop == LoopInit /\ [][LoopNext]_vars

\* C33: after a probe whose result is unhealthy the backend's next check is
\* at most 60 seconds after the probe, whatever its health_check_interval
C33_UnhealthyRecheckedWithin60 ==
    \A b \in adapters :
        (model_health[b] = "unhealthy" /\ kout.last_checked[b] >= 0)
            => kout.next_check_time[b] <= kout.last_checked[b] + UnhealthyRecheck

\* the event loop runs the health task whenever it can take a step
FairSpecLoop == LoopInit /\ [][LoopNext]_vars /\ WF_vars(LoopStep)

\* this step is the probe of backend b by the health loop
ProbeStep(b) ==
    /\ b \in adapters
    /\ kout.loop = "checking"
    /\ kout.models_to_check # <<>>
    /\ kout.models_to_check[1] = b
    /\ kout'.models_to_check = Tail(kout.models_to_check)

\* this step belongs to route_prompt
RouteStep ==
    <<pc, req, loc, result, trace, nreq, terminal, model_metrics, store>>' #
    <<pc, req, loc, result, trace, nreq, terminal, model_metrics, store>>

\* C34: with the health loop scheduled fairly, every backend with an adapter
\* whose next check is due is eventually probed; a probe moves the next check
\* strictly into the future, also when it fails, and leaves the loop running
\* with the other due backends still to be checked; no step of route_prompt
\* probes a backend or changes the health table
C34_DueBackendsAreProbed ==
    /\ \A b \in Backends : (b \in adapters /\ Due(b)) ~> (kout.last_checked[b] = now /\ ~Due(b))
    /\ [][\A b \in Backends : ProbeStep(b) =>
            /\ kout'.next_check_time[b] > now'
            /\ kout'.last_checked[b] = now
            /\ kout'.loop \in {"checking", "sleeping"}
            /\ (kout'.loop = "checking") = (Tail(kout.models_to_check) # <<>>)]_vars
    /\ [][RouteStep => (model_health' = model_health /\ probe' = probe /\ kout' = kout)]_vars

C34_Witness ==
    /\ now = 300
    /\ model_health["openai"] = "unhealthy"
    /\ kout.last_checked["openai"] = now
    /\ probe = [model |-> "anthropic", kind |-> "ok"]
    /\ kout.last_checked["anthropic"] = now
    /\ kout.loop = "sleeping"
    /\ pc = "fallback"

(***************************************************************************)
(* SpecMetrics: _update_metrics applied, call after call, to the metrics   *)
(* of one backend. kin is the last call, kout the metrics record with the  *)
(* latencies of the successful responses that were not served from the     *)
(* cache since the last reset; avg_latency_ms is kept as a fraction.       *)
(***************************************************************************)
MaxUpdates == 3
MaxElapses == 1

\* if now - metrics["last_reset"] > 86400
ResetPeriod == 86400

Latencies == {100, 200}

\* self.model_metrics[model_key] as _initialize_adapters creates it at t
InitialMetrics(t) ==
    [requests |-> 0, successes |-> 0, failures |-> 0,
     avg_latency_ms |-> <<0, 1>>,
     total_tokens_processed |-> 0, total_tokens_input |-> 0,
     total_tokens_output |-> 0, total_cost |-> 0, last_reset |-> t,
     timeout_count |-> 0, cache_hit_count |-> 0, stream_requests |-> 0]

MetricsCall(success, latency_ms, tokens, input_tokens, output_tokens, cost, from_cache, is_streaming) ==
    [success |-> success, latency_ms |-> latency_ms, tokens |-> tokens,
     input_tokens |-> input_tokens, output_tokens |-> output_tokens,
     cost |-> cost, from_cache |-> from_cache, is_streaming |-> is_streaming]

\* the calls of _update_metrics in route_prompt, _handle_fallback,
\* _handle_streaming_request and test_model
MetricsCalls ==
    {MetricsCall(FALSE, 0, 0, 0, 0, 0, FALSE, FALSE),
     MetricsCall(FALSE, 0, 0, 0, 0, 0, FALSE, TRUE)}
    \cup {MetricsCall(FALSE, l, 0, 0, 0, 0, FALSE, s) : l \in Latencies, s \in BOOLEAN}
    \cup {MetricsCall(TRUE, l, 3, 1, 2, c, FALSE, FALSE) : l \in Latencies, c \in {0, 1}}
    \cup {MetricsCall(TRUE, l, 3, 0, 0, 0, TRUE, FALSE) : l \in {0, 1}}

\* the running average of _update_metrics, as the fraction <<numerator,
\* denominator>>
running_average(metrics, call) ==
    IF call.success /\ ~call.from_cache /\ call.latency_ms > 0
    THEN LET prev_avg == metrics.avg_latency_ms
             prev_count == metrics.successes - 1
         IN  IF prev_count <= 0
             THEN <<call.latency_ms, 1>>
             ELSE <<prev_avg[1] * prev_count + call.latency_ms * prev_avg[2],
                    prev_avg[2] * (prev_count + 1)>>
    ELSE metrics.avg_latency_ms

\* an update that counts the request and neither its success nor its failure
counted_as_request_only(metrics, call) == [metrics EXCEPT !.requests = @ + 1]

\* _update_metrics up to its daily reset
counted(metrics, call) ==
    LET m1 == [metrics EXCEPT
                 !.requests = @ + 1,
                 !.successes = IF call.success THEN @ + 1 ELSE @,
                 !.failures = IF call.success THEN @ ELSE @ + 1]
    IN  [m1 EXCEPT
           !.avg_latency_ms = running_average(m1, call),
           !.total_tokens_processed = IF call.tokens > 0 THEN @ + call.tokens ELSE @,
           !.total_tokens_input = IF call.input_tokens > 0 THEN @ + call.input_tokens ELSE @,
           !.total_tokens_output = IF call.output_tokens > 0 THEN @ + call.output_tokens ELSE @,
           !.total_cost = IF call.cost > 0 THEN @ + call.cost ELSE @,
           !.cache_hit_count = IF call.from_cache THEN @ + 1 ELSE @,
           !.stream_requests = IF call.is_streaming THEN @ + 1 ELSE @]

\* a reset that also clears the counters
daily_reset_of_everything(metrics, t) ==
    IF t - metrics.last_reset > ResetPeriod THEN InitialMetrics(t) ELSE metrics

\* "Reset metrics daily if needed"
daily_reset(metrics, t) ==
    IF t - metrics.last_reset > ResetPeriod
    THEN [metrics EXCEPT !.last_reset = t, !.avg_latency_ms = <<0, 1>>]
    ELSE metrics

MetricsInit ==
    /\ kin = NoneVal
    /\ kout = [metrics |-> InitialMetrics(0), samples |-> <<>>, updates |-> 0, elapses |-> 0]
    /\ ClassifierIdle
    /\ cache = NoneVal /\ store = EmptyStore /\ storeUp = TRUE /\ now = 0
    /\ cop = NoneVal
    /\ RouterIdle

\* one call of _update_metrics
MetricsUpdate(call) ==
    /\ kout.updates < MaxUpdates
    /\ kin' = call
    /\ LET updated == daily_reset(counted(kout.metrics, call), now)
           sampled == IF call.success /\ ~call.from_cache
                      THEN Append(kout.samples, call.latency_ms) ELSE kout.samples
       IN  kout' = [kout EXCEPT
                      !.metrics = updated,
                      !.samples = IF updated.last_reset # kout.metrics.last_reset
                                  THEN <<>> ELSE sampled,
                      !.updates = @ + 1]
    /\ UNCHANGED <<classifierVars, cacheVars, cop, routerVars>>

\* self.model_metrics[model_key]["timeout_count"] += 1, after the update of
\* a call that ran out of time
MetricsTimeout ==
    /\ kin \in MetricsCalls
    /\ ~kin.success /\ kin.latency_ms > 0 /\ ~kin.is_streaming
    /\ kin' = [timeout |-> TRUE]
    /\ kout' = [kout EXCEPT !.metrics.timeout_count = @ + 1]
    /\ UNCHANGED <<classifierVars, cacheVars, cop, routerVars>>

\* time passes between two calls
MetricsElapse(d) ==
    /\ kout.elapses < MaxElapses
    /\ now' = now + d
    /\ kout' = [kout EXCEPT !.elapses = @ + 1]
    /\ UNCHANGED <<kin, classifierVars, cache, store, storeUp, cop, routerVars>>

MetricsNext ==
    \/ \E call \in MetricsCalls : MetricsUpdate(call)
    \/ MetricsTimeout
    \/ \E d \in {ResetPeriod, ResetPeriod + 1} : MetricsElapse(d)

SpecMetrics == MetricsInit /\ [][MetricsNext]_vars

RECURSIVE SumSeq(_)
SumSeq(q) == IF q = <<>> THEN 0 ELSE Head(q) + SumSeq(Tail(q))

\* C35: avg_latency_ms is the arithmetic mean of the latencies of the
\* successful responses that were not served from the cache (since the last
\* reset); cache hits and failures leave it as it is
C35_AverageIsMeanOfSuccesses ==
    LET avg == kout.metrics.avg_latency_ms
    IN  IF kout.samples = <<>>
        THEN avg[1] = 0
        ELSE avg[1] * Len(kout.samples) = SumSeq(kout.samples) * avg[2]

CounterFields ==
    {"requests", "successes", "failures", "timeout_count", "cache_hit_count",
     "stream_requests", "total_tokens_processed", "total_tokens_input",
     "total_tokens_output", "total_cost"}

\* C36: no step lowers a counter or an accumulator of the metrics; an update
\* in which the 24-hour reset fires sets last_reset to the time of the update
\* and avg_latency_ms to 0 and leaves every counter as the update without the
\* reset leaves it
C36_CountersKeptByReset ==
    [][LET before == kout.metrics
           after == kout'.metrics
       IN  /\ \A f \in CounterFields : after[f] >= before[f]
           /\ after.last_reset # before.last_reset =>
                /\ after.last_reset = now
                /\ now - before.last_reset > ResetPeriod
                /\ after.avg_latency_ms = <<0, 1>>
                /\ \A f \in CounterFields : after[f] = counted(before, kin')[f]]_vars

C36_Witness ==
    /\ kout.metrics.last_reset = ResetPeriod + 1
    /\ kout.metrics.avg_latency_ms = <<0, 1>>
    /\ kout.metrics.requests = 2
    /\ kout.metrics.successes = 1
    /\ kout.metrics.total_tokens_processed = 3
    /\ kout.samples = <<>>

\* this step is a call of _update_metrics
UpdateStep == kout'.updates = kout.updates + 1

\* C37: for the metrics of a backend requests = successes + failures in every
\* reachable state; a call of _update_metrics adds one to requests and one to
\* exactly one of successes and failures, also when the 24-hour reset fires
\* in it; no other step (the timeout count, the passing of time) changes any
\* of the three
C37_RequestsAreSuccessesPlusFailures ==
    /\ [](kout.metrics.requests = kout.metrics.successes + kout.metrics.failures)
    /\ [][LET before == kout.metrics
              after == kout'.metrics
          IN  IF UpdateStep
              THEN /\ after.requests = before.requests + 1
                   /\ \/ /\ after.successes = before.successes + 1
                         /\ after.failures = before.failures
                      \/ /\ after.successes = before.successes
                         /\ after.failures = before.failures + 1
              ELSE /\ after.requests = before.requests
                   /\ after.successes = before.successes
                   /\ after.failures = before.failures]_vars

C37_Witness ==
    /\ kout.metrics.requests = 3
    /\ kout.metrics.successes = 1
    /\ kout.metrics.failures = 2
    /\ kout.metrics.timeout_count = 1
    /\ kout.metrics.last_reset > 0

\* C38: the envelope route_prompt returns for a request whose metadata carry
\* a request_id carries that request_id, also when it is served from the
\* cache, where an earlier request with another request_id stored it
C38_EnvelopeCarriesRequestId ==
    (pc = "done" /\ MHas(req.metadata, "request_id") /\ DHas(result, "model_used"))
        => DGet(result, "request_id", "") = MGet(req.metadata, "request_id", "")

(***************************************************************************)
(* SpecRace: a Cache.set and a Cache.clear(model) of two coroutines on one *)
(* connected store, each command of the store client a step of its own.    *)
(* kout holds the position of the set and of the clear in flight.          *)
(***************************************************************************)
MaxRaceSets == 2
MaxRaceClears == 1

RaceMetas == {<<>>, <<<<"model", "openai">>, <<"request_id", "R1">>>>}

RaceEnvs == {MkEnv("openai", "-", "-", "-"), MkEnv("anthropic", "false", "-", "true")}

RaceInit ==
    /\ ClassifierIdle
    /\ now = 0
    /\ storeUp = TRUE
    /\ cache = NewCache(TRUE, storeUp, 0)
    /\ store = EmptyStore
    /\ cop = [op |-> "init"]
    /\ kin = NoneVal
    /\ kout = [setting |-> NoneVal, clearing |-> NoneVal, sets |-> 0, clears |-> 0]
    /\ RouterIdle

\* Cache.set up to "await self.async_client.setex(key, ttl, serialized)"
SetSetex(prompt, response, metadata) ==
    LET key == generate_key(prompt, metadata)
        stripped == response_to_cache(response)
        ttl == MGet(metadata, "cache_ttl", DefaultTtl)
        model_used == DGet(stripped, "model_used", "")
    IN  /\ kout.setting = NoneVal
        /\ kout.sets < MaxRaceSets
        /\ ensure_connection(cache, storeUp, now).ok
        /\ ~skip_caching(stripped)
        /\ ttl > 0
        /\ store' = [store EXCEPT !.entries = DPut(store.entries, key, JsonDumps(stripped))]
        /\ kout' = [kout EXCEPT
                      !.sets = @ + 1,
                      !.setting = IF model_used # ""
                                  THEN [key |-> key, model_used |-> model_used]
                                  ELSE NoneVal]
        /\ cop' = [op |-> "setex"]
        /\ UNCHANGED <<kin, classifierVars, cache, storeUp, now, routerVars>>

\* "await self.async_client.sadd(model_set_key, key)"
SetSadd ==
    /\ kout.setting # NoneVal
    /\ LET model_used == kout.setting.model_used
       IN  store' = [store EXCEPT !.sets =
                        DPut(store.sets, model_used,
                             DGet(store.sets, model_used, {}) \cup {kout.setting.key})]
    /\ kout' = [kout EXCEPT !.setting = NoneVal]
    /\ cop' = [op |-> "sadd"]
    /\ UNCHANGED <<kin, classifierVars, cache, storeUp, now, routerVars>>

\* Cache.clear(model) up to "await self.async_client.smembers(model_set_key)"
ClearSmembers(model) ==
    /\ kout.clearing = NoneVal
    /\ kout.clears < MaxRaceClears
    /\ ensure_connection(cache, storeUp, now).ok
    /\ LET model_keys == DGet(store.sets, model, {})
       IN  kout' = [kout EXCEPT
                      !.clears = @ + 1,
                      !.clearing = IF model_keys # {}
                                   THEN [model |-> model, model_keys |-> model_keys,
                                         at |-> "delete_keys"]
                                   ELSE NoneVal]
    /\ cop' = [op |-> "smembers"]
    /\ UNCHANGED <<kin, classifierVars, cache, store, storeUp, now, routerVars>>

\* "await self.async_client.delete(*model_keys)"
ClearDeleteKeys ==
    /\ kout.clearing # NoneVal
    /\ kout.clearing.at = "delete_keys"
    /\ store' = [store EXCEPT !.entries = DDel(store.entries, kout.clearing.model_keys)]
    /\ kout' = [kout EXCEPT !.clearing.at = "delete_set"]
    /\ cop' = [op |-> "delete_keys"]
    /\ UNCHANGED <<kin, classifierVars, cache, storeUp, now, routerVars>>

\* "await self.async_client.delete(model_set_key)"
ClearDeleteSet ==
    /\ kout.clearing # NoneVal
    /\ kout.clearing.at = "delete_set"
    /\ store' = [store EXCEPT !.sets = DDel(store.sets, {kout.clearing.model})]
    /\ kout' = [kout EXCEPT !.clearing = NoneVal]
    /\ cop' = [op |-> "delete_set"]
    /\ UNCHANGED <<kin, classifierVars, cache, storeUp, now, routerVars>>

RaceNext ==
    \/ \E p \in CachePrompts, m \in RaceMetas, e \in RaceEnvs : SetSetex(p, e, m)
    \/ SetSadd
    \/ \E k \in {"openai", "anthropic"} : ClearSmembers(k)
    \/ ClearDeleteKeys
    \/ ClearDeleteSet

SpecRace == RaceInit /\ [][RaceNext]_vars

\* C39: in every state of the store, whatever the interleaving of a set and
\* a clear(k), every stored entry whose envelope has model_used = k is a
\* member of the index set of k (the entry a set has written and is about to
\* index excepted), so that a later clear(k) removes it
C39_StoredEntriesAreIndexed ==
    \A key \in DOMAIN store.entries :
        LET k == StoredModel(store, key)
        IN  (k # "" /\ ~(kout.setting # NoneVal /\ kout.setting.key = key))
                => key \in DGet(store.sets, k, {})

====
